---- MODULE Spec2Model ----
(***************************************************************************)
(* Model of the suggestion engine of the advanced bidding manager:         *)
(*   TargetAnalyzer (target_analyzer.ts, kept as src/unnamed/part_005),    *)
(*   SuggestedTargetsSheet (src/src/suggestions_sheet.ts),                 *)
(*   and the parts of Curve (src/src/curve.ts) and of GoogleAdsClient      *)
(*   (src/unnamed/part_003) they call.                                     *)
(*                                                                         *)
(* Numbers.  Targets are fixed-point integers in thousandths (Scale): the  *)
(* target 4.5 is 4500 and the learning rate 0.05 is 50.  A JavaScript      *)
(* number is a record [k, v]: k = "num" with the value v, or one of the    *)
(* special values NaN, +Infinity, -Infinity; undefined and null are        *)
(* records of the same shape, so that any two values can be compared.      *)
(***************************************************************************)
EXTENDS Integers, Sequences, FiniteSets, TLC

VARIABLES
    \* ---- TargetAnalyzer.findOptimalTargetForProfitUnconstrained ----
    curve,           \* the Curve the analyzer holds: strategyType, fitted
    pc,              \* position of the running call
    i,               \* loop counter of the gradient ascent
    target,          \* local `target`
    previousTarget,  \* local `previousTarget`
    learningRate,    \* local `learningRate`
    lastGradient,    \* the last evaluation of curve.calculateGradient
    optimalTarget,   \* the value returned by the ascent
    exit,            \* which return statement was taken
    \* ---- TargetAnalyzer.suggestNewTarget ----
    currentTarget,   \* argument currentTarget
    profitTarget,    \* this.predictValue(currentTarget)
    profitOptimal,   \* this.predictValue(optimalTarget)
    suggestedTarget, \* the value returned
    \* ---- SuggestedTargetsSheet.calculateValuePerMetric ----
    seriesArgs,      \* the arguments: strategyType, points, currentTarget, metric
    series,          \* the tuple returned: currentTarget, result, valueToAdd
    \* ---- SuggestedTargetsSheet.get*Suggestions ----
    simulations,     \* the responses fetched, each with what fitting its
                     \* points gives
    metrics,         \* argument metrics
    metricToOptimizeTowards, \* argument metricToOptimizeTowards
    position,        \* how many responses the for loop has taken
    sheetRows,       \* local `sheetRows`
    rowCall,         \* the last call of generateSuggestionsRow
    \* ---- Curve ----
    self,            \* the Curve object: strategyType, maxIterations, a, b,
                     \* c, rSquared
    curveData,       \* argument data of the constructor
    iterations,      \* local `iterations` of fit
    answer,          \* the last method call: method, target, value
    \* ---- two rows generated one after the other for the same entity ----
    run,             \* which of the two rows is being generated
    runInput,        \* the entity: its profit series and its current target
    initialParams,   \* local `initialParams` of generateSuggestionsRow
    simplex,         \* local `simplex` of fit
    history,         \* the simplex and ascent states this row went through
    firstRun,        \* what the first row went through and produced
    \* ---- TargetsSheet.update ----
    editData,        \* the values of the Targets sheet, header row first
    cids,            \* googleAdsClient.getCids()
    toUpdate,        \* local `toUpdate`
    cidIndex,        \* position of the for loop over cids
    calls,           \* the calls made on the client and on the spreadsheet
                     \* service, in order
    \* ---- GoogleAdsClient.getEntityTarget ----
    targetArgs, \* the strategy type and the entity of the call
    entityTarget, \* what the call returned
    \* ---- SimulationsSheet.load ----
    lastRow, \* sheet.getLastRow() of the Simulations sheet
    formulas, \* the rows holding each of the formula columns
    allSimulations, \* the numbers of rows the load gathered, by level
    formulaIndex, \* index of the forEach of appendFormulas
    sheetCalls, \* the calls made on the sheet, in order
    \* ---- Curve.fit, each point of the simplex by its loss ----
    losses,          \* calculateLoss(data, simplex[k]) of the points, in
                     \* the order of the array
    lossStored,      \* calculateLoss(data, [a, b, c]) of what fit stored
    \* ---- SuggestedTargetsSheet.createCurvesForAllMetrics ----
    metricIndex, \* index of the forEach over metrics
    shared,          \* where in the simplex the caller's array
                     \* initialParams is, 0 if nowhere
    keptCurves, \* local `curves`, the Curve objects kept so far
    \* ---- the choices made by the simulation type for one row ----
    rowOf, \* the simulation of the row and the current target of its entity
    choices, \* what each choice gave, by the name of the choice
    pointIndex \* index of the forEach over points

analyzerVars ==
    <<curve, pc, i, target, previousTarget, learningRate, lastGradient,
      optimalTarget, exit>>

analyzerVars_ ==
    <<curve, i, target, previousTarget, learningRate, lastGradient,
      optimalTarget, exit>>

suggestVars == <<currentTarget, profitTarget, profitOptimal, suggestedTarget>>

seriesVars == <<seriesArgs, series>>

sheetVars ==
    <<simulations, metrics, metricToOptimizeTowards, position, sheetRows,
      rowCall>>

curveVars == <<self, curveData, iterations, answer>>

runVars == <<run, runInput, initialParams, simplex, history, firstRun>>

updateVars == <<editData, cids, toUpdate, cidIndex, calls>>

targetVars == <<targetArgs, entityTarget>>

loadVars == <<lastRow, formulas, allSimulations, formulaIndex, sheetCalls>>

lossVars == <<losses, lossStored>>

shareVars == <<metricIndex, shared, keptCurves>>

familyVars == <<rowOf, choices, pointIndex>>

vars ==
    <<analyzerVars, suggestVars, seriesVars, sheetVars, curveVars, runVars,
      updateVars, targetVars, loadVars, lossVars, shareVars, familyVars>>

-----------------------------------------------------------------------------
(* JavaScript values *)

\* The fixed-point unit of targets and ratios: 1.0 is Scale.
Scale == 1000

Num(n) == [k |-> "num", v |-> n]
NaN == [k |-> "nan", v |-> 0]
PosInf == [k |-> "inf", v |-> 1]
NegInf == [k |-> "inf", v |-> -1]
Undefined == [k |-> "undefined", v |-> 0]
Null == [k |-> "null", v |-> 0]
Str(s) == [k |-> "str", v |-> s]
Arr(s) == [k |-> "array", v |-> s]
Obj(r) == [k |-> "object", v |-> r]

IsNum(x) == x.k = "num"
IsNaN(x) == x.k = "nan"

\* x in a condition: undefined, null, 0, NaN and '' are falsy.
Truthy(x) == x \notin {Undefined, Null, NaN, Num(0), Str("")}

\* x ?? d
Coalesce(x, d) == IF x = Undefined \/ x = Null THEN d ELSE x

Abs(n) == IF n < 0 THEN -n ELSE n
Sign(n) == IF n > 0 THEN 1 ELSE IF n < 0 THEN -1 ELSE 0
Min2(a, b) == IF a < b THEN a ELSE b
Max2(a, b) == IF a > b THEN a ELSE b
CeilDiv(a, b) == (a + b - 1) \div b

-----------------------------------------------------------------------------
(* StrategyType and the optimization config *)

TARGET_ROAS == "TARGET_ROAS"
TARGET_CPA == "TARGET_CPA"
MAXIMIZE_CONVERSION_VALUE == "MAXIMIZE_CONVERSION_VALUE"
MAXIMIZE_CONVERSIONS == "MAXIMIZE_CONVERSIONS"

StrategyType ==
    {TARGET_ROAS, TARGET_CPA, MAXIMIZE_CONVERSION_VALUE, MAXIMIZE_CONVERSIONS}

\* 1 / tolerance: the tolerance 1e-5 is below the resolution of Scale, so
\* it is kept as its inverse and compared through BelowTolerance.
ToleranceInverse == 100000

\* maxIterations of the two configs.
MaxIterationsRoas == 1000
MaxIterationsCpa == 100000

getOptimizationConfig(strategyType) ==
    IF strategyType = TARGET_ROAS
    THEN [initialTarget |-> 4500,
          maxTarget |-> 500 * Scale,
          minTarget |-> 1 * Scale,
          maxIterations |-> MaxIterationsRoas,
          learningRate |-> 50]
    ELSE [initialTarget |-> 50 * Scale,
          maxTarget |-> 2000000 * Scale,
          minTarget |-> 1 * Scale,
          maxIterations |-> MaxIterationsCpa,
          learningRate |-> 50]

\* |d| < tolerance, for d in thousandths: d * (1/Scale) < 1/ToleranceInverse.
BelowTolerance(d) == Abs(d) < CeilDiv(Scale, ToleranceInverse)

-----------------------------------------------------------------------------
(* Curve.calculateGradient, as the analyzer sees it *)

\* The gradients a fitted curve can report at a finite target: a negative,
\* a zero and a positive number, and the values the floating-point formula
\* gives when it overflows (exp(...) = Infinity, Infinity * 0 = NaN).
GradientValues == {Num(-2), Num(0), Num(3), NaN, PosInf, NegInf}

\* A mutant of calculateGradient: the null check is missing, and the
\* formula is evaluated on null parameters (2 * null * target + null is 0).
calculateGradientOfNulls(c, t, last) ==
    IF ~c.fitted THEN {Num(0)}
    ELSE IF IsNaN(t) THEN {NaN}
    ELSE IF last.at = t THEN {last.g}
    ELSE GradientValues

\* calculateGradient(target) of `c`, given the previous evaluation `last`.
\* Unfitted (a, b or c null): null.  At a NaN target both formulas give NaN.
\* The method reads only a, b, c and the target, so evaluating it again at
\* the target of the previous evaluation gives the same value.
\* Of a curve whose parameters are known (`params`, in thousandths) the
\* value is the one of the polynomial formula, 2 * a * target + b.
calculateGradient(c, t, last) ==
    IF ~c.fitted THEN {Null}
    ELSE IF IsNaN(t) THEN {NaN}
    ELSE IF "params" \in DOMAIN c
    THEN {Num((2 * c.params[1] * (t.v \div 10)) \div 100 + c.params[2])}
    ELSE IF last.at = t THEN {last.g}
    ELSE GradientValues

-----------------------------------------------------------------------------
(* TargetAnalyzer.findOptimalTargetForProfitUnconstrained *)

\* A mutant of normalizedGradient: the gradient is not divided by its
\* magnitude.
unnormalizedGradient(g) ==
    IF IsNum(g) THEN g
    ELSE IF IsNaN(g) THEN Num(0)
    ELSE NaN

\* gradientMagnitude > 0 ? gradient / gradientMagnitude : 0
normalizedGradient(g) ==
    IF IsNum(g) THEN Num(Sign(g.v))
    ELSE IF IsNaN(g) THEN Num(0)
    ELSE NaN

\* target + learningRate * normalizedGradient
moveTarget(t, lr, ng) ==
    IF IsNum(t) /\ IsNum(ng) THEN Num(t.v + lr * ng.v) ELSE NaN

\* Math.max(minTarget, Math.min(maxTarget, newTarget))
clampTarget(cfg, x) ==
    IF IsNum(x) THEN Num(Max2(cfg.minTarget, Min2(cfg.maxTarget, x.v))) ELSE x

\* i > 0 && (newTarget - target) * (target - previousTarget) < 0
overshot(n, newTarget, t, prev) ==
    /\ n > 0
    /\ IsNum(newTarget) /\ IsNum(t) /\ IsNum(prev)
    /\ Sign(newTarget.v - t.v) * Sign(t.v - prev.v) < 0

\* Math.abs(newTarget - previousTarget) < tolerance
converged(newTarget, prev) ==
    /\ IsNum(newTarget) /\ IsNum(prev)
    /\ BelowTolerance(newTarget.v - prev.v)

\* A mutant of increment: the counter is left as it is.
noIncrement(n) == n

\* i++
increment(n) == n + 1

\* One pass through the body of the for loop, as it acts on the locals.
OptimizeBody ==
    /\ pc = "loop"
    /\ i < getOptimizationConfig(curve.strategyType).maxIterations
    /\ \E gradient \in calculateGradient(curve, target, lastGradient) :
         LET cfg == getOptimizationConfig(curve.strategyType)
             newTarget ==
                 clampTarget(cfg,
                     moveTarget(target, learningRate,
                                normalizedGradient(gradient)))
             rate == IF overshot(i, newTarget, target, previousTarget)
                     THEN learningRate \div 10
                     ELSE learningRate
         IN  /\ lastGradient' = [at |-> target, g |-> gradient]
             /\ IF gradient = Null
                THEN /\ pc' = "returned"
                     /\ exit' = "no gradient"
                     /\ optimalTarget' = target
                     /\ UNCHANGED <<i, target, previousTarget, learningRate>>
                ELSE IF converged(newTarget, previousTarget)
                THEN /\ pc' = "returned"
                     /\ exit' = "converged"
                     /\ optimalTarget' = newTarget
                     /\ learningRate' = rate
                     /\ UNCHANGED <<i, target, previousTarget>>
                ELSE /\ previousTarget' = target
                     /\ target' = newTarget
                     /\ learningRate' = rate
                     /\ i' = increment(i)
                     /\ UNCHANGED <<pc, exit, optimalTarget>>

\* One pass through the body of the for loop.
OptimizeStep ==
    /\ OptimizeBody
    /\ UNCHANGED <<familyVars, shareVars, lossVars, loadVars, targetVars,
                   updateVars, runVars, curveVars, curve, suggestVars,
                   seriesVars, sheetVars>>

\* The loop ran maxIterations times: warn and return the target.
OptimizeCap ==
    /\ pc = "loop"
    /\ i >= getOptimizationConfig(curve.strategyType).maxIterations
    /\ pc' = "returned"
    /\ exit' = "cap"
    /\ optimalTarget' = target
    /\ UNCHANGED <<familyVars, shareVars, lossVars, loadVars, targetVars,
                   updateVars, runVars, curveVars, curve, i, target,
                   previousTarget, learningRate, lastGradient, suggestVars,
                   seriesVars, sheetVars>>

\* The analyzer is built over a curve, fitted or not, and the ascent starts.
Curves == [strategyType : {TARGET_ROAS, TARGET_CPA}, fitted : BOOLEAN]

\* No call of the analyzer, of suggestNewTarget, of calculateValuePerMetric
\* is under way.
IdleAnalyzer ==
    /\ curve = Undefined
    /\ i = 0
    /\ target = Undefined
    /\ previousTarget = Undefined
    /\ learningRate = 0
    /\ lastGradient = [at |-> Undefined, g |-> Undefined]
    /\ optimalTarget = Undefined
    /\ exit = "none"

IdleSuggest ==
    /\ currentTarget = Undefined
    /\ profitTarget = Undefined
    /\ profitOptimal = Undefined
    /\ suggestedTarget = Undefined

IdleSeries ==
    /\ seriesArgs = Undefined
    /\ series = Undefined

IdleSheet ==
    /\ simulations = <<>>
    /\ metrics = <<>>
    /\ metricToOptimizeTowards = ""
    /\ position = 0
    /\ sheetRows = <<>>
    /\ rowCall = Undefined

IdleCurve ==
    /\ self = Undefined
    /\ curveData = Undefined
    /\ iterations = 0
    /\ answer = Undefined

IdleRun ==
    /\ run = 0
    /\ runInput = Undefined
    /\ initialParams = <<>>
    /\ simplex = <<>>
    /\ history = <<>>
    /\ firstRun = Undefined

IdleUpdate ==
    /\ editData = <<>>
    /\ cids = <<>>
    /\ toUpdate = <<>>
    /\ cidIndex = 0
    /\ calls = <<>>

IdleTarget ==
    /\ targetArgs = Undefined
    /\ entityTarget = Undefined

IdleLoad ==
    /\ lastRow = 0
    /\ formulas = <<>>
    /\ allSimulations = <<>>
    /\ formulaIndex = 0
    /\ sheetCalls = <<>>

IdleLoss ==
    /\ losses = <<>>
    /\ lossStored = Undefined

IdleShare ==
    /\ metricIndex = 0
    /\ shared = 0
    /\ keptCurves = <<>>

IdleFamily ==
    /\ rowOf = Undefined
    /\ choices = <<>>
    /\ pointIndex = 0

InitAnalyzer ==
    /\ IdleFamily
    /\ IdleShare
    /\ IdleLoss
    /\ IdleLoad
    /\ IdleTarget
    /\ IdleUpdate
    /\ IdleRun
    /\ IdleCurve
    /\ curve \in Curves
    /\ pc = "loop"
    /\ i = 0
    /\ target = Num(getOptimizationConfig(curve.strategyType).initialTarget)
    /\ previousTarget = Num(0)
    /\ learningRate = getOptimizationConfig(curve.strategyType).learningRate
    /\ lastGradient = [at |-> Undefined, g |-> Undefined]
    /\ optimalTarget = Undefined
    /\ exit = "running"
    /\ IdleSuggest
    /\ IdleSeries
    /\ IdleSheet

NextAnalyzer == OptimizeStep \/ OptimizeCap

SpecAnalyzer == InitAnalyzer /\ [][NextAnalyzer]_vars

\* C1: whatever the curve and its gradients, the value the ascent returns
\* is a number inside [minTarget, maxTarget] of the family's config, on
\* every exit (convergence, gradient unavailable, iteration cap).
C1_OptimalWithinBounds ==
    pc = "returned" =>
        /\ IsNum(optimalTarget)
        /\ optimalTarget.v >= getOptimizationConfig(curve.strategyType).minTarget
        /\ optimalTarget.v <= getOptimizationConfig(curve.strategyType).maxTarget

-----------------------------------------------------------------------------
(* TargetAnalyzer.suggestNewTarget *)

\* Curve.predictValue(target): undefined for an unfitted curve (a, b or c
\* null) or an undefined target, otherwise the value of the family's
\* formula, drawn here from `values`.
predictValue(c, t, values) ==
    IF t = Undefined \/ ~c.fitted THEN {Undefined} ELSE values

\* Math.abs(profitOptimal - profitTarget) /
\*   Math.max(Math.abs(profitTarget), Math.abs(profitOptimal), 1)
\* as a ratio in thousandths; NaN as soon as one prediction is not finite
\* (NaN, or Infinity / Infinity).
normalizedProfitDifference(pT, pO) ==
    IF IsNum(pT) /\ IsNum(pO)
    THEN Num((Abs(pO.v - pT.v) * Scale)
                \div Max2(Max2(Abs(pT.v), Abs(pO.v)), 1 * Scale))
    ELSE NaN

\* The fallback: currentTarget * (1 + Math.sign(optimal - current) * 0.05)
fallbackTarget(cur, opt) ==
    IF IsNum(cur) /\ IsNum(opt)
    THEN Num((cur.v * (100 + Sign(opt.v - cur.v) * 5)) \div 100)
    ELSE NaN

\* Math.max(0.1, Math.min(maxTarget, newTarget))
clampSuggestion(maxTarget, newTarget) ==
    Max2(100, Min2(maxTarget, newTarget))

suggestNewTarget(cur, opt, strategyType, pT, pO) ==
    LET maxTarget == getOptimizationConfig(strategyType).maxTarget
    IN  IF pT = Undefined \/ pO = Undefined
        THEN fallbackTarget(cur, opt)
        ELSE IF ~(IsNum(cur) /\ IsNum(opt))
        THEN NaN
        ELSE LET targetDifference == opt.v - cur.v
                 maxTargetMove == (Abs(targetDifference) * 5) \div 100
                 npd == normalizedProfitDifference(pT, pO)
                 targetMove ==
                     IF IsNum(npd) /\ npd.v < 100
                     THEN (maxTargetMove * npd.v) \div 100
                     ELSE maxTargetMove
                 direction == IF targetDifference > 0 THEN 1 ELSE -1
                 newTarget == cur.v + direction * targetMove
             IN  Num(clampSuggestion(maxTarget, newTarget))

\* The targets and predictions the call is tried on (thousandths).  The
\* optimal target is what the ascent returned: a number within the bounds
\* of the config, or NaN (over a curve whose gradient is infinite).
CurrentTargets ==
    {Num(0), Num(50), Num(2000), Num(4600), Num(490000), Num(600000)}
OptimalTargets ==
    {Num(1000), Num(4500), Num(4550), Num(50000), Num(500000), NaN}
ProfitValues ==
    {Num(-500), Num(0), Num(1000), Num(1050), Num(3000), NaN, PosInf}

SuggestNewTarget ==
    /\ pc = "suggest"
    /\ suggestedTarget' =
           suggestNewTarget(currentTarget, optimalTarget, curve.strategyType,
                            profitTarget, profitOptimal)
    /\ pc' = "suggested"
    /\ UNCHANGED <<familyVars, shareVars, lossVars, loadVars, targetVars,
                   updateVars, runVars, curveVars, curve, i, target,
                   previousTarget, learningRate, lastGradient, optimalTarget,
                   exit, currentTarget, profitTarget, profitOptimal,
                   seriesVars, sheetVars>>

\* suggestNewTarget is called with a current and an optimal target; the
\* two predictions are the curve's answers (one answer per target).
InitSuggest ==
    /\ IdleFamily
    /\ IdleShare
    /\ IdleLoss
    /\ IdleLoad
    /\ IdleTarget
    /\ IdleUpdate
    /\ IdleRun
    /\ IdleCurve
    /\ curve \in Curves
    /\ pc = "suggest"
    /\ i = 0
    /\ target = Undefined
    /\ previousTarget = Undefined
    /\ learningRate = 0
    /\ lastGradient = [at |-> Undefined, g |-> Undefined]
    /\ exit = "returned"
    /\ currentTarget \in CurrentTargets
    /\ optimalTarget \in OptimalTargets
    /\ profitTarget \in predictValue(curve, currentTarget, ProfitValues)
    /\ profitOptimal \in predictValue(curve, optimalTarget, ProfitValues)
    /\ (currentTarget = optimalTarget => profitTarget = profitOptimal)
    /\ suggestedTarget = Undefined
    /\ IdleSeries
    /\ IdleSheet

NextSuggest == SuggestNewTarget

SpecSuggest == InitSuggest /\ [][NextSuggest]_vars

\* C2: the value suggestNewTarget returns lies within [0.1, maxTarget] of
\* the strategy family, whether or not the curve can predict a value.
C2_SuggestionWithinBounds ==
    pc = "suggested" =>
        /\ IsNum(suggestedTarget)
        /\ suggestedTarget.v >= 100
        /\ suggestedTarget.v
               <= getOptimizationConfig(curve.strategyType).maxTarget

\* C3: the value s that suggestNewTarget returns is never farther from
\* currentTarget than optimalTarget is: |s - current| <= |optimal - current|,
\* also after the final clamp and on the prediction-unavailable fallback.
C3_SuggestionNotPastOptimal ==
    pc = "suggested" =>
        /\ IsNum(suggestedTarget)
        /\ Abs(suggestedTarget.v - currentTarget.v)
               <= Abs(optimalTarget.v - currentTarget.v)

-----------------------------------------------------------------------------
(* GoogleAdsClient.getPointTarget and SuggestedTargetsSheet.calculateValue *)

\* micros / 1e6, as a target in thousandths; undefined / 1e6 is NaN.
fromMicros(x) == IF IsNum(x) THEN Num(x.v \div 1000) ELSE NaN

getPointTarget(strategyType, point) ==
    IF strategyType = TARGET_ROAS
    THEN point.targetRoas
    ELSE fromMicros(point.targetCpaMicros)

METRICS ==
    <<"profit", "cost", "conversionvalue", "clicks", "impressions",
      "conversions">>
METRIC_TO_OPTIMIZE_TO == "profit"

\* The cases of the switch in calculateValue.
KnownMetrics ==
    {"cost", "profit", "conversionvalue", "roas", "clicks", "conversions",
     "impressions"}

\* calculateValue(point, metric): the value in whole units, or a throw
\* (the default case of the switch).  costMicros is a whole number of
\* units (a multiple of 1e6), as on all the points used here.
calculateValue(point, metric) ==
    LET cost == point.costMicros \div 1000000
    IN  CASE metric = "cost" -> [threw |-> FALSE, value |-> cost]
          [] metric = "profit" ->
                [threw |-> FALSE,
                 value |-> point.biddableConversionsValue - cost]
          [] metric = "conversionvalue" ->
                [threw |-> FALSE, value |-> point.biddableConversionsValue]
          [] metric = "roas" ->
                [threw |-> FALSE,
                 value |-> IF point.costMicros > 0
                           THEN point.biddableConversionsValue \div cost
                           ELSE 0]
          [] metric = "clicks" -> [threw |-> FALSE, value |-> point.clicks]
          [] metric = "conversions" ->
                [threw |-> FALSE, value |-> point.biddableConversions]
          [] metric = "impressions" ->
                [threw |-> FALSE, value |-> point.impressions]
          [] OTHER -> [threw |-> TRUE, value |-> 0]

-----------------------------------------------------------------------------
(* SuggestedTargetsSheet.calculateValuePerMetric *)

\* A mutant of tryPush: the catch is missing and the exception leaves.
tryPushNoCatch(values, call) ==
    IF call.threw
    THEN [threw |-> TRUE, values |-> values]
    ELSE [threw |-> FALSE, values |-> Append(values, call.value)]

\* try { values.push(this.calculateValue(point, metric)) } catch (e) {...}:
\* a throw is logged and absorbed, and nothing is pushed for that point.
tryPush(values, call) ==
    IF call.threw
    THEN [threw |-> FALSE, values |-> values]
    ELSE [threw |-> FALSE, values |-> Append(values, call.value)]

\* points.forEach(...), from point j on: the values pushed so far, or the
\* exception that left the loop.
RECURSIVE collectValues(_, _, _, _)
collectValues(points, metric, j, values) ==
    IF j > Len(points)
    THEN [threw |-> FALSE, values |-> values]
    ELSE LET pushed == tryPush(values, calculateValue(points[j], metric))
         IN  IF pushed.threw
             THEN pushed
             ELSE collectValues(points, metric, j + 1, pushed.values)

\* Math.min(...values): Infinity for no value.
RECURSIVE minOf(_)
minOf(values) ==
    IF Len(values) = 1
    THEN values[1]
    ELSE Min2(values[1], minOf(Tail(values)))

lowestValue(values) == IF values = <<>> THEN PosInf ELSE Num(minOf(values))

\* A mutant of valueToAddFor: the + 1 is missing.
valueToAddNoMargin(lowest) ==
    IF IsNum(lowest) /\ lowest.v < 0 THEN -lowest.v ELSE 0

\* valueToAdd: -lowestValue + 1 if lowestValue < 0, else 0.
valueToAddFor(lowest) ==
    IF IsNum(lowest) /\ lowest.v < 0 THEN -lowest.v + 1 ELSE 0

\* targetValues.map((target, i) => [target, values[i]]): values[i] is
\* undefined where no value was pushed.
pairUp(targetValues, values) ==
    [j \in 1..Len(targetValues) |->
        [target |-> targetValues[j],
         value |-> IF j <= Len(values) THEN Num(values[j]) ELSE Undefined]]

\* `points` is undefined or Arr(<<point, ...>>).
calculateValuePerMetric(strategyType, points, current, metric) ==
    IF points = Undefined
    THEN [threw |-> FALSE, currentTarget |-> current, result |-> <<>>,
          valueToAdd |-> 0]
    ELSE LET targetValues ==
                 [j \in 1..Len(points.v) |->
                     getPointTarget(strategyType, points.v[j])]
             pushed == collectValues(points.v, metric, 1, <<>>)
             valueToAdd == valueToAddFor(lowestValue(pushed.values))
             values ==
                 [j \in 1..Len(pushed.values) |->
                     pushed.values[j] + valueToAdd]
         IN  IF pushed.threw
             THEN [threw |-> TRUE, currentTarget |-> current,
                   result |-> <<>>, valueToAdd |-> 0]
             ELSE [threw |-> FALSE, currentTarget |-> current,
                   result |-> pairUp(targetValues, values),
                   valueToAdd |-> valueToAdd]

\* Simulation points: four samples (target in thousandths, the metrics in
\* whole units), as points of the strategy's family.  The first three have
\* the profits -50, 10 and 40.
SamplePointData ==
    <<[target |-> 1000, cost |-> 50, value |-> 0, clicks |-> 0,
       conversions |-> 0, impressions |-> 10],
      [target |-> 2000, cost |-> 10, value |-> 20, clicks |-> 5,
       conversions |-> 2, impressions |-> 20],
      [target |-> 3000, cost |-> 10, value |-> 50, clicks |-> 10,
       conversions |-> 5, impressions |-> 30],
      [target |-> 4000, cost |-> 0, value |-> 0, clicks |-> 1,
       conversions |-> 1, impressions |-> 0]>>

simulationPoint(strategyType, d) ==
    [targetRoas |->
         IF strategyType = TARGET_ROAS THEN Num(d.target) ELSE Undefined,
     targetCpaMicros |->
         IF strategyType = TARGET_ROAS THEN Undefined ELSE Num(d.target * 1000),
     costMicros |-> d.cost * 1000000,
     biddableConversionsValue |-> d.value,
     clicks |-> d.clicks,
     biddableConversions |-> d.conversions,
     impressions |-> d.impressions]

\* The longest point list tried.
MaxPoints == 3

PointListsOfLength(strategyType, n) ==
    {Arr([j \in 1..n |-> simulationPoint(strategyType, SamplePointData[f[j]])]) :
        f \in [1..n -> 1..Len(SamplePointData)]}

PointLists(strategyType) ==
    {Undefined} \cup
    UNION {PointListsOfLength(strategyType, n) : n \in 0..MaxPoints}

CalculateValuePerMetric ==
    /\ pc = "series"
    /\ series' = calculateValuePerMetric(seriesArgs.strategyType,
                     seriesArgs.points, seriesArgs.currentTarget,
                     seriesArgs.metric)
    /\ pc' = "series done"
    /\ UNCHANGED <<familyVars, shareVars, lossVars, loadVars, targetVars,
                   updateVars, runVars, curveVars, analyzerVars_, suggestVars,
                   seriesArgs, sheetVars>>

InitSeries ==
    /\ IdleFamily
    /\ IdleShare
    /\ IdleLoss
    /\ IdleLoad
    /\ IdleTarget
    /\ IdleUpdate
    /\ IdleRun
    /\ IdleCurve
    /\ pc = "series"
    /\ IdleAnalyzer
    /\ IdleSuggest
    /\ \E strategyType \in {TARGET_ROAS, TARGET_CPA} :
       \E points \in PointLists(strategyType) :
       \E metric \in KnownMetrics \cup {"ctr"} :
           seriesArgs = [strategyType |-> strategyType, points |-> points,
                         currentTarget |-> Num(2000), metric |-> metric]
    /\ series = Undefined
    /\ IdleSheet

NextSeries == CalculateValuePerMetric

SpecSeries == InitSeries /\ [][NextSeries]_vars

\* C9: for a series built by calculateValuePerMetric from a point list and
\* a known metric, the offset is -min + 1 if the lowest metric value over
\* the points is negative and 0 otherwise, every value of the series is the
\* point's value plus the offset, and the j-th pair holds the j-th point's
\* target and value; profits -50, 10, 40 give the offset 51 and the values
\* 1, 61, 91.
C9_OffsetRule ==
    (/\ pc = "series done"
     /\ seriesArgs.points # Undefined
     /\ seriesArgs.metric \in KnownMetrics) =>
        LET pts == seriesArgs.points.v
            orig == [j \in 1..Len(pts) |->
                        calculateValue(pts[j], seriesArgs.metric).value]
            negative == {orig[j] : j \in 1..Len(pts)} \cap (-1000000..-1)
            lowest == CHOOSE x \in negative : \A y \in negative : x <= y
            offset == IF negative # {} THEN -lowest + 1 ELSE 0
        IN  /\ ~series.threw
            /\ series.valueToAdd = offset
            /\ Len(series.result) = Len(pts)
            /\ \A j \in 1..Len(pts) :
                  /\ series.result[j].value = Num(orig[j] + offset)
                  /\ series.result[j].target =
                        getPointTarget(seriesArgs.strategyType, pts[j])
            /\ orig = <<-50, 10, 40>> =>
                  /\ series.valueToAdd = 51
                  /\ [j \in 1..3 |-> series.result[j].value.v] = <<1, 61, 91>>

\* The series of the profits -50, 10, 40 has been built.
C9_Witness ==
    /\ pc = "series done"
    /\ seriesArgs.metric = "profit"
    /\ seriesArgs.strategyType = TARGET_ROAS
    /\ series.valueToAdd = 51
    /\ series.result =
          <<[target |-> Num(1000), value |-> Num(1)],
            [target |-> Num(2000), value |-> Num(61)],
            [target |-> Num(3000), value |-> Num(91)]>>

\* C10: every value of a series built by calculateValuePerMetric from a
\* point list and a known metric is at least 1.
C10_SeriesAtLeastOne ==
    (/\ pc = "series done"
     /\ seriesArgs.points # Undefined
     /\ seriesArgs.metric \in KnownMetrics) =>
        \A j \in 1..Len(series.result) : series.result[j].value.v >= 1

-----------------------------------------------------------------------------
(* GoogleAdsClient.getEntityTarget and getPoints *)

\* typeof x === 'number'
IsNumberType(x) == x.k \in {"num", "nan", "inf"}

\* An entity's field is a JavaScript value, undefined where the response
\* has no such field: ('f' in entity && entity.f) is Truthy(entity.f).
getEntityTarget(strategyType, entity) ==
    IF strategyType \in {TARGET_ROAS, MAXIMIZE_CONVERSION_VALUE}
    THEN IF Truthy(entity.maximizeConversionValue)
         THEN entity.maximizeConversionValue.v.targetRoas
         ELSE IF Truthy(entity.targetRoas)
         THEN IF IsNumberType(entity.targetRoas)
              THEN entity.targetRoas
              ELSE entity.targetRoas.v.targetRoas
         ELSE IF Truthy(entity.effectiveTargetRoas)
         THEN entity.effectiveTargetRoas
         ELSE Undefined
    ELSE IF strategyType \in {TARGET_CPA, MAXIMIZE_CONVERSIONS}
    THEN IF Truthy(entity.maximizeConversions)
         THEN fromMicros(entity.maximizeConversions.v.targetCpaMicros)
         ELSE IF Truthy(entity.targetCpa)
         THEN fromMicros(entity.targetCpa.v.targetCpaMicros)
         ELSE IF Truthy(entity.effectiveTargetCpaMicros)
         THEN fromMicros(entity.effectiveTargetCpaMicros)
         ELSE Undefined
    ELSE Undefined

\* pointList?.points
optionalPoints(pointList) ==
    IF pointList = Undefined \/ pointList = Null
    THEN Undefined
    ELSE pointList.v.points

getPoints(simulation) ==
    IF simulation.type = TARGET_ROAS
    THEN optionalPoints(simulation.targetRoasPointList)
    ELSE optionalPoints(simulation.targetCpaPointList)

-----------------------------------------------------------------------------
(* Rows of the Suggestions sheet *)

\* An array element never assigned.
Unset == [k |-> "unset", v |-> 0]

\* array[index] = value, the index counted from 0: the array grows as
\* needed and the elements skipped stay unset.
SetAt(array, index, value) ==
    [j \in 1..Max2(Len(array), index + 1) |->
        IF j = index + 1 THEN value
        ELSE IF j <= Len(array) THEN array[j]
        ELSE Unset]

\* A mutant of push: the element is put in front.
unshift(array, x) == <<x>> \o array

\* array.push(x)
push(array, x) == Append(array, x)

SuggestedTargetsLabelsIndex ==
    [BIDDING_STRATEGY_ID |-> 0,
     BIDDING_STRATEGY_NAME |-> 1,
     BIDDING_STRATEGY_TYPE |-> 2,
     CURRENT_TARGET |-> 3,
     SUGGESTED_TARGET |-> 4,
     OPTIMAL_TARGET |-> 5,
     CURRENT_PROFIT |-> 6,
     SUGGESTED_PROFIT |-> 7,
     OPTIMAL_PROFIT |-> 8,
     CURRENT_COST |-> 9,
     SUGGESTED_COST |-> 10,
     OPTIMAL_COST |-> 11,
     CURRENT_CONVERSION_VALUE |-> 12,
     SUGGESTED_CONVERSION_VALUE |-> 13,
     OPTIMAL_CONVERSION_VALUE |-> 14,
     CURRENT_CLICKS |-> 15,
     SUGGESTED_CLICKS |-> 16,
     OPTIMAL_CLICKS |-> 17,
     CURRENT_IMPRESSIONS |-> 18,
     SUGGESTED_IMPRESSIONS |-> 19,
     OPTIMAL_IMPRESSIONS |-> 20,
     CURRENT_CONVERSIONS |-> 21,
     SUGGESTED_CONVERSIONS |-> 22,
     OPTIMAL_CONVERSIONS |-> 23]

\* The assignments of getSuggestedTargetsHeaders, in the order of the code.
headerAssignments ==
    LET I == SuggestedTargetsLabelsIndex
    IN  <<<<I.BIDDING_STRATEGY_ID, "Bidding Strategy ID">>,
          <<I.BIDDING_STRATEGY_NAME, "Bidding Strategy Name">>,
          <<I.BIDDING_STRATEGY_TYPE, "Bidding Strategy Type">>,
          <<I.CURRENT_TARGET, "Current Target">>,
          <<I.SUGGESTED_TARGET, "Suggested Target">>,
          <<I.OPTIMAL_TARGET, "Optimal Target">>,
          <<I.CURRENT_PROFIT, "Current Profit">>,
          <<I.SUGGESTED_PROFIT, "Suggested Profit">>,
          <<I.OPTIMAL_PROFIT, "Optimal Profit">>,
          <<I.CURRENT_COST, "Current Cost">>,
          <<I.SUGGESTED_COST, "Suggested Cost">>,
          <<I.OPTIMAL_COST, "Optimal Cost">>,
          <<I.CURRENT_CONVERSION_VALUE, "Current Conversion Value">>,
          <<I.SUGGESTED_CONVERSION_VALUE, "Suggested Conversion Value">>,
          <<I.OPTIMAL_CONVERSION_VALUE, "Optimal Conversion Value">>,
          <<I.CURRENT_CONVERSIONS, "Current Conversions">>,
          <<I.SUGGESTED_CONVERSIONS, "Suggested Conversions">>,
          <<I.OPTIMAL_CONVERSIONS, "Optimal Conversions">>,
          <<I.CURRENT_CLICKS, "Current Clicks">>,
          <<I.SUGGESTED_CLICKS, "Suggested Clicks">>,
          <<I.OPTIMAL_CLICKS, "Optimal Clicks">>,
          <<I.CURRENT_IMPRESSIONS, "Current Impressions">>,
          <<I.SUGGESTED_IMPRESSIONS, "Suggested Impressions">>,
          <<I.OPTIMAL_IMPRESSIONS, "Optimal Impressions">>>>

RECURSIVE assignAll(_, _, _)
assignAll(array, assignments, j) ==
    IF j > Len(assignments)
    THEN array
    ELSE assignAll(SetAt(array, assignments[j][1], Str(assignments[j][2])),
                   assignments, j + 1)

getSuggestedTargetsHeaders == assignAll(<<>>, headerAssignments, 1)

-----------------------------------------------------------------------------
(* SuggestedTargetsSheet.createAndValidateCurve, createCurvesForAllMetrics *)

\* A mutant of aboveThreshold: 0.8 itself passes.
atOrAboveThreshold(rSquared) ==
    IF IsNum(rSquared) THEN rSquared.v >= (8 * Scale) \div 10
    ELSE rSquared = PosInf

\* rSquared > 0.8
aboveThreshold(rSquared) ==
    IF IsNum(rSquared) THEN rSquared.v > (8 * Scale) \div 10
    ELSE rSquared = PosInf

\* new Curve(strategyType, data, initialParams, metricName).  With fewer
\* than 3 pairs nothing is fitted and rSquared stays null.  Otherwise fit()
\* sets a, b, c and rSquared = calculateRSquared(data): NaN if a value of
\* the data is undefined (the mean of the values is NaN), else `fitted`,
\* the number the minimisation ends with on this data.
newCurve(strategyType, data, metricName, fitted) ==
    IF Len(data) >= 3
    THEN [strategyType |-> strategyType,
          metricName |-> metricName,
          fitted |-> TRUE,
          rSquared |-> IF \E j \in 1..Len(data) : data[j].value = Undefined
                       THEN NaN
                       ELSE fitted]
    ELSE [strategyType |-> strategyType,
          metricName |-> metricName,
          fitted |-> FALSE,
          rSquared |-> Null]

createAndValidateCurve(strategyType, data, metricName, fitted) ==
    IF Len(data) >= 3
    THEN LET made == newCurve(strategyType, data, metricName, fitted)
         IN  IF /\ made.rSquared # Null
                /\ ~IsNaN(made.rSquared)
                /\ aboveThreshold(made.rSquared)
             THEN made
             ELSE Null
    ELSE Null

\* object[key] = value
assign(object, key, value) ==
    [x \in DOMAIN object \cup {key} |->
        IF x = key THEN value ELSE object[x]]

\* metrics.forEach(...) of createCurvesForAllMetrics, from metric j on.
\* `made.curves` is the object built; `made.series` and `made.fits` keep,
\* for every metric, the series it was given and the Curve constructed for
\* it (null if none was), accepted or not.
RECURSIVE createCurvesFrom(_, _, _, _, _, _, _)
createCurvesFrom(strategyType, current, points, ms, fitting, j, made) ==
    IF j > Len(ms)
    THEN made
    ELSE LET metric == ms[j]
             s == calculateValuePerMetric(strategyType, points, current,
                                          metric)
             accepted == createAndValidateCurve(strategyType, s.result,
                             metric, fitting.rSquared[metric])
         IN  IF s.threw
             THEN [made EXCEPT !.threw = TRUE]
             ELSE createCurvesFrom(strategyType, current, points, ms,
                      fitting, j + 1,
                      [threw |-> FALSE,
                       curves |->
                           IF accepted # Null
                           THEN assign(made.curves, metric,
                                    [curve |-> accepted,
                                     offset |-> s.valueToAdd])
                           ELSE made.curves,
                       series |-> assign(made.series, metric, s.result),
                       fits |->
                           assign(made.fits, metric,
                               IF Len(s.result) >= 3
                               THEN newCurve(strategyType, s.result, metric,
                                             fitting.rSquared[metric])
                               ELSE Null)])

createCurvesForAllMetrics(strategyType, current, points, ms, fitting) ==
    createCurvesFrom(strategyType, current, points, ms, fitting, 1,
        [threw |-> FALSE, curves |-> <<>>, series |-> <<>>, fits |-> <<>>])

-----------------------------------------------------------------------------
(* SuggestedTargetsSheet.getTargetSuggestions *)

\* The analyzer is built over the accepted curve of the metric: the ascent
\* returns fitting.optimalTarget, and the curve predicts
\* fitting.profitTarget at the current and fitting.profitOptimal at the
\* optimal target.
getTargetSuggestions(current, dataMetric, curves, metric, fitting) ==
    IF Len(dataMetric) > 0
    THEN LET c == curves[metric].curve
         IN  [optimalTarget |-> fitting.optimalTarget,
              suggestedTarget |->
                  suggestNewTarget(current, fitting.optimalTarget,
                      c.strategyType, fitting.profitTarget,
                      fitting.profitOptimal)]
    ELSE [optimalTarget |-> Undefined, suggestedTarget |-> Undefined]

-----------------------------------------------------------------------------
(* SuggestedTargetsSheet.generateSuggestionsRow *)

\* A mutant of currentFilledInCellsCount: the optimal target's cell is
\* counted as filled in.
currentFilledInCellsCountWithOptimal == 5 + 1

currentFilledInCellsCount == 5

\* new Array(n).fill(value)
filled(n, value) == [j \in 1..n |-> value]

\* A mutant of getOriginalValue: the offset is not subtracted.
getPredictedValue(entry, t) ==
    IF t = Undefined \/ ~entry.curve.fitted
    THEN Str("N/A")
    ELSE [k |-> "predicted",
          v |-> [metric |-> entry.curve.metricName, target |-> t,
                 offset |-> 0]]

\* getOriginalValue(target) of the metric's entry in curves: 'N/A' if the
\* curve predicts nothing, else the prediction at the target less the
\* offset, kept as the term it is.
getOriginalValue(entry, t) ==
    IF t = Undefined \/ ~entry.curve.fitted
    THEN Str("N/A")
    ELSE [k |-> "predicted",
          v |-> [metric |-> entry.curve.metricName, target |-> t,
                 offset |-> entry.offset]]

\* metrics.forEach(...) of the success path, from metric j on.
RECURSIVE pushMetricCells(_, _, _, _, _, _, _)
pushMetricCells(row, ms, curves, current, suggested, optimal, j) ==
    IF j > Len(ms)
    THEN row
    ELSE pushMetricCells(
             IF ms[j] \in DOMAIN curves
             THEN row \o <<getOriginalValue(curves[ms[j]], current),
                            getOriginalValue(curves[ms[j]], suggested),
                            getOriginalValue(curves[ms[j]], optimal)>>
             ELSE row \o <<Str("N/A"), Str("N/A"), Str("N/A")>>,
             ms, curves, current, suggested, optimal, j + 1)

\* A mutant of noPoints: a list of fewer than 3 points counts as none.
fewPoints(points) == ~Truthy(points) \/ Len(points.v) < 3

\* !points
noPoints(points) == ~Truthy(points)

\* The call: `threw` if an exception leaves it, else the row returned.
\* `path` names the return statement taken; points, currentTarget and made
\* keep the locals of the call.
generateSuggestionsRow(simulation, entity, metric, ms, fitting) ==
    LET I == SuggestedTargetsLabelsIndex
        simType == simulation.type
        current == Coalesce(getEntityTarget(simType, entity), Num(0))
        row ==
            SetAt(SetAt(SetAt(SetAt(<<>>,
                I.BIDDING_STRATEGY_ID, entity.resourceName),
                I.BIDDING_STRATEGY_NAME, entity.name),
                I.BIDDING_STRATEGY_TYPE, Str(simType)),
                I.CURRENT_TARGET, Coalesce(current, Str("")))
        remainingCellsCount ==
            Len(getSuggestedTargetsHeaders) - currentFilledInCellsCount
        points == getPoints(simulation)
        emptyRow == filled(remainingCellsCount, Str("No data points"))
        none == [threw |-> FALSE, curves |-> <<>>, series |-> <<>>,
                 fits |-> <<>>]
    IN  IF noPoints(points)
        THEN [threw |-> FALSE,
              row |-> SetAt(row, I.SUGGESTED_TARGET,
                            Str("ERROR: No points found")) \o emptyRow,
              path |-> "no points", points |-> points,
              currentTarget |-> current, made |-> none]
        ELSE LET made == createCurvesForAllMetrics(simType, current, points,
                             ms, fitting)
                 primary == calculateValuePerMetric(simType, points, current,
                                metric)
             IN  IF made.threw \/ primary.threw
                 THEN [threw |-> TRUE, row |-> <<>>, path |-> "thrown",
                       points |-> points, currentTarget |-> current,
                       made |-> made]
                 \* dataMetric && metric in curves: an array is truthy
                 ELSE IF metric \in DOMAIN made.curves
                 THEN LET t == getTargetSuggestions(current, primary.result,
                                   made.curves, metric, fitting)
                      IN  [threw |-> FALSE,
                           row |->
                               pushMetricCells(
                                   SetAt(SetAt(row,
                                       I.SUGGESTED_TARGET,
                                       Coalesce(t.suggestedTarget, Str(""))),
                                       I.OPTIMAL_TARGET,
                                       Coalesce(t.optimalTarget, Str(""))),
                                   ms, made.curves, current,
                                   t.suggestedTarget, t.optimalTarget, 1),
                           path |-> "success", points |-> points,
                           currentTarget |-> current, made |-> made]
                 ELSE [threw |-> FALSE,
                       row |->
                           SetAt(row, I.SUGGESTED_TARGET,
                               Str("ERROR: No data found for optimization metric"))
                           \o emptyRow,
                       path |-> "no data", points |-> points,
                       currentTarget |-> current, made |-> made]

-----------------------------------------------------------------------------
(* SuggestedTargetsSheet.getStrategySuggestions, getCampaignSuggestions and
   getAdGroupSuggestions: the same loop over the responses of one fetch *)

\* A metric name calculateValue does not know.
UnknownMetric == "ctr"

MetricNames == KnownMetrics \cup {UnknownMetric}

\* METRICS with an unknown name in the place of 'clicks'.
MetricsWithUnknown ==
    <<"profit", "cost", "conversionvalue", UnknownMetric, "impressions",
      "conversions">>

\* The target fields of an entity without any.
NoTargets ==
    [maximizeConversionValue |-> Undefined,
     targetRoas |-> Undefined,
     effectiveTargetRoas |-> Undefined,
     maximizeConversions |-> Undefined,
     targetCpa |-> Undefined,
     effectiveTargetCpaMicros |-> Undefined]

\* The target fields of the entities a simulation of the type comes with:
\* none, a portfolio strategy's, a campaign's with and without a target,
\* an ad group's.
EntityTargets(simType) ==
    IF simType = TARGET_ROAS
    THEN {NoTargets,
          [NoTargets EXCEPT !.targetRoas = Obj([targetRoas |-> Num(2000)])],
          [NoTargets EXCEPT !.targetRoas = Num(3000)],
          [NoTargets EXCEPT
              !.maximizeConversionValue = Obj([targetRoas |-> Num(4600)])],
          [NoTargets EXCEPT
              !.maximizeConversionValue = Obj([targetRoas |-> Undefined])],
          [NoTargets EXCEPT !.effectiveTargetRoas = Num(4500)]}
    ELSE {NoTargets,
          [NoTargets EXCEPT
              !.targetCpa = Obj([targetCpaMicros |-> Num(2000000)])],
          [NoTargets EXCEPT
              !.maximizeConversions = Obj([targetCpaMicros |-> Undefined])],
          [NoTargets EXCEPT !.effectiveTargetCpaMicros = Num(50000000)]}

entityOf(id, targets) ==
    [resourceName |-> Str(id),
     name |-> Str("name of " \o id),
     maximizeConversionValue |-> targets.maximizeConversionValue,
     targetRoas |-> targets.targetRoas,
     effectiveTargetRoas |-> targets.effectiveTargetRoas,
     maximizeConversions |-> targets.maximizeConversions,
     targetCpa |-> targets.targetCpa,
     effectiveTargetCpaMicros |-> targets.effectiveTargetCpaMicros]

\* The first n sample points, as the point list of the simulation's type.
samplePoints(simType, n) ==
    Arr([j \in 1..n |-> simulationPoint(simType, SamplePointData[j])])

\* The point lists of a simulation: none, one without points, and one of
\* 0 to 4 points.
PointListValues(simType) ==
    {Undefined, Obj([points |-> Undefined])} \cup
    {Obj([points |-> samplePoints(simType, n)]) :
        n \in 0..Len(SamplePointData)}

simulationOf(simType, pointList) ==
    [type |-> simType,
     targetRoasPointList |->
         IF simType = TARGET_ROAS THEN pointList ELSE Undefined,
     targetCpaPointList |->
         IF simType = TARGET_CPA THEN pointList ELSE Undefined]

\* The rSquared a fit can end with: a perfect and a good fit, the threshold
\* itself, a fit worse than the mean, and the two values a diverged fit
\* gives.
R2Values == {Num(1000), Num(801), Num(800), Num(-200), NaN, NegInf}

\* rSquared per metric: p for profit, q for cost, clicks and the unknown
\* metric, a good fit for the others.
R2Profiles ==
    {[m \in MetricNames |->
         IF m = "profit" THEN p
         ELSE IF m \in {"cost", "clicks", UnknownMetric} THEN q
         ELSE Num(900)] :
        p \in R2Values, q \in {Num(1000), Num(800)}}

\* What findOptimalTargetForProfitUnconstrained returns over a fitted
\* curve: the lower bound, the initial target, a target three steps above
\* it, or NaN.
AscentOutcomes(simType) ==
    LET cfg == getOptimizationConfig(simType)
    IN  {Num(cfg.minTarget), Num(cfg.initialTarget),
         Num(cfg.initialTarget + 3 * cfg.learningRate), NaN}

\* The profits predicted at the current and at the optimal target.
ProfitPairs ==
    {<<Num(1000), Num(1000)>>, <<Num(1000), Num(1050)>>, <<NaN, Num(1000)>>}

Fittings(simType) ==
    {[rSquared |-> r, optimalTarget |-> o, profitTarget |-> pp[1],
      profitOptimal |-> pp[2]] :
        r \in R2Profiles, o \in AscentOutcomes(simType), pp \in ProfitPairs}

\* The fitting of a simulation nothing is fitted for.
NoFitting ==
    [rSquared |-> [m \in MetricNames |-> Num(1000)],
     optimalTarget |-> Num(4500), profitTarget |-> Num(1000),
     profitOptimal |-> Num(1000)]

\* The curve is a function of the target: the same target, the same profit.
consistent(simType, targets, fitting) ==
    Coalesce(getEntityTarget(simType, targets), Num(0)) = fitting.optimalTarget
        => fitting.profitTarget = fitting.profitOptimal

fittable(simulation) ==
    /\ getPoints(simulation) # Undefined
    /\ Len(getPoints(simulation).v) >= 3

\* One response of a fetch, with what fitting its points gives.
response(id, simType, pointList, targets, fitting) ==
    [simulation |-> simulationOf(simType, pointList),
     entity |-> entityOf(id, targets),
     fitting |-> fitting]

FittingsFor(simType, pointList, targets) ==
    {f \in IF fittable(simulationOf(simType, pointList))
           THEN Fittings(simType)
           ELSE {NoFitting} :
        consistent(simType, targets, f)}

ResponsesOfType(id, simType) ==
    UNION {UNION {{response(id, simType, l, e, f) :
                      f \in FittingsFor(simType, l, e)} :
                  e \in EntityTargets(simType)} :
           l \in PointListValues(simType)}

\* Every response tried on its own.
Responses ==
    ResponsesOfType("e0", TARGET_ROAS) \cup ResponsesOfType("e0", TARGET_CPA)

GoodFitting(simType) ==
    [rSquared |-> [m \in MetricNames |-> Num(900)],
     optimalTarget |-> Num(getOptimizationConfig(simType).initialTarget),
     profitTarget |-> Num(1000), profitOptimal |-> Num(3000)]

PoorFitting(simType) ==
    [GoodFitting(simType) EXCEPT
        !.rSquared = [m \in MetricNames |-> Num(800)]]

\* The responses lists are made of: a strategy with a good fit, one
\* without a point list, one with 2 points, one with a poor fit, and one
\* without a target.
ListedResponses ==
    {response("e1", TARGET_ROAS, Obj([points |-> samplePoints(TARGET_ROAS, 3)]),
         [NoTargets EXCEPT !.targetRoas = Obj([targetRoas |-> Num(2000)])],
         GoodFitting(TARGET_ROAS)),
     response("e2", TARGET_CPA, Undefined, NoTargets, NoFitting),
     response("e3", TARGET_ROAS, Obj([points |-> samplePoints(TARGET_ROAS, 2)]),
         [NoTargets EXCEPT !.effectiveTargetRoas = Num(4500)], NoFitting),
     response("e4", TARGET_CPA, Obj([points |-> samplePoints(TARGET_CPA, 4)]),
         [NoTargets EXCEPT
             !.targetCpa = Obj([targetCpaMicros |-> Num(2000000)])],
         PoorFitting(TARGET_CPA)),
     response("e5", TARGET_CPA, Obj([points |-> samplePoints(TARGET_CPA, 3)]),
         NoTargets, GoodFitting(TARGET_CPA))}

\* The longest list of responses tried.
MaxSimulations == 2

ResponseLists ==
    UNION {[1..n -> ListedResponses] : n \in 0..MaxSimulations}

\* One pass through the body of the for loop: the row of the next response
\* is generated and pushed; an exception leaving generateSuggestionsRow
\* leaves the loop and the method.
GenerateRow ==
    /\ pc = "rows"
    /\ position < Len(simulations)
    /\ LET s == simulations[position + 1]
           call == generateSuggestionsRow(s.simulation, s.entity,
                       metricToOptimizeTowards, metrics, s.fitting)
       IN  /\ rowCall' = call
           /\ IF call.threw
              THEN /\ pc' = "rows raised"
                   /\ UNCHANGED <<sheetRows, position>>
              ELSE /\ sheetRows' = push(sheetRows, call.row)
                   /\ position' = position + 1
                   /\ pc' = pc
    /\ UNCHANGED <<familyVars, shareVars, lossVars, loadVars, targetVars,
                   updateVars, runVars, curveVars, analyzerVars_, suggestVars,
                   seriesVars, simulations, metrics, metricToOptimizeTowards>>

\* return sheetRows
ReturnRows ==
    /\ pc = "rows"
    /\ position = Len(simulations)
    /\ pc' = "rows returned"
    /\ UNCHANGED <<familyVars, shareVars, lossVars, loadVars, targetVars,
                   updateVars, runVars, curveVars, analyzerVars_, suggestVars,
                   seriesVars, sheetVars>>

\* load passes METRICS and METRIC_TO_OPTIMIZE_TO; a single response is
\* also tried with an unknown metric among the metrics, and as the metric
\* to optimize towards.
InitSheet ==
    /\ IdleFamily
    /\ IdleShare
    /\ IdleLoss
    /\ IdleLoad
    /\ IdleTarget
    /\ IdleUpdate
    /\ IdleRun
    /\ IdleCurve
    /\ pc = "rows"
    /\ IdleAnalyzer
    /\ IdleSuggest
    /\ IdleSeries
    /\ \/ /\ simulations \in ResponseLists
          /\ metrics = METRICS
          /\ metricToOptimizeTowards = METRIC_TO_OPTIMIZE_TO
       \/ /\ simulations \in {<<r>> : r \in Responses}
          /\ \/ /\ metrics = METRICS
                /\ metricToOptimizeTowards = METRIC_TO_OPTIMIZE_TO
             \/ /\ metrics = MetricsWithUnknown
                /\ metricToOptimizeTowards \in
                       {METRIC_TO_OPTIMIZE_TO, UnknownMetric}
    /\ position = 0
    /\ sheetRows = <<>>
    /\ rowCall = Undefined

NextSheet == GenerateRow \/ ReturnRows

SpecSheet == InitSheet /\ [][NextSheet]_vars

\* C4: the loop pushes exactly one row per response, in the order of the
\* responses (row j carries the resource name of response j), and no call
\* of generateSuggestionsRow raises, whether the point list is missing, has
\* fewer than 3 points, fits poorly, or the entity has no target.
C4_OneRowPerSimulation ==
    /\ pc # "rows raised"
    /\ pc \in {"rows", "rows returned"} =>
          /\ Len(sheetRows) = position
          /\ \A j \in 1..Len(sheetRows) :
                sheetRows[j][1] = simulations[j].entity.resourceName
    /\ pc = "rows returned" => Len(sheetRows) = Len(simulations)
    /\ (pc \in {"rows", "rows returned"} /\ rowCall # Undefined) =>
          ~rowCall.threw

\* Two responses were processed: one without a point list, then one with a
\* good fit.
C4_Witness ==
    /\ pc = "rows returned"
    /\ Len(sheetRows) = 2
    /\ sheetRows[1][1] = Str("e2")
    /\ sheetRows[1][5] = Str("ERROR: No points found")
    /\ sheetRows[2][1] = Str("e1")
    /\ IsNum(sheetRows[2][5])

\* C5: every row returned by generateSuggestionsRow has as many cells as
\* the header (24) and no cell unset or undefined, on every path; on the
\* success path the cells of the k-th of the metrics profit, cost,
\* conversionvalue, clicks, impressions, conversions stand under that
\* metric's Current, Suggested and Optimal headers and hold its values at
\* the current, suggested and optimal target, or 'N/A'.
C5_RowShape ==
    (pc \in {"rows", "rows returned"} /\ rowCall # Undefined) =>
        LET row == rowCall.row
            order == <<"profit", "cost", "conversionvalue", "clicks",
                       "impressions", "conversions">>
            labels ==
                <<<<"Current Profit", "Suggested Profit", "Optimal Profit">>,
                  <<"Current Cost", "Suggested Cost", "Optimal Cost">>,
                  <<"Current Conversion Value", "Suggested Conversion Value",
                    "Optimal Conversion Value">>,
                  <<"Current Clicks", "Suggested Clicks", "Optimal Clicks">>,
                  <<"Current Impressions", "Suggested Impressions",
                    "Optimal Impressions">>,
                  <<"Current Conversions", "Suggested Conversions",
                    "Optimal Conversions">>>>
            at == <<row[4], row[5], row[6]>>
        IN  /\ Len(getSuggestedTargetsHeaders) = 24
            /\ Len(row) = 24
            /\ \A j \in 1..Len(row) : row[j] # Unset /\ row[j] # Undefined
            /\ rowCall.path \in {"no points", "no data", "success"}
            /\ \A k \in 1..6 : \A a \in 1..3 :
                  LET j == 6 + 3 * (k - 1) + a
                  IN  /\ getSuggestedTargetsHeaders[j] = Str(labels[k][a])
                      /\ rowCall.path = "success" =>
                            \/ row[j] = Str("N/A")
                            \/ /\ row[j].k = "predicted"
                               /\ row[j].v.metric = order[k]
                               /\ row[j].v.target = at[a]

\* A row of the success path with all six metrics predicted.
C5_Witness ==
    /\ rowCall # Undefined
    /\ rowCall.path = "success"
    /\ \A j \in 7..24 : rowCall.row[j].k = "predicted"
    /\ rowCall.row[22].v.metric = "conversions"

\* C6 as stated: for a simulation without a point list or with fewer than
\* 3 points, the suggested-target cell is 'ERROR: No points found', every
\* metric cell is 'No data points', and nothing is raised.
C6_FewPointsNoPointsSentinel ==
    (/\ pc \in {"rows", "rows returned", "rows raised"}
     /\ rowCall # Undefined
     /\ \/ rowCall.points = Undefined
        \/ Len(rowCall.points.v) < 3) =>
        /\ ~rowCall.threw
        /\ rowCall.row[5] = Str("ERROR: No points found")
        /\ \A j \in 7..24 : rowCall.row[j] = Str("No data points")

\* C6, amended: without a point list (or with one without points) the
\* suggested-target cell is 'ERROR: No points found'; with a list of 0, 1
\* or 2 points it is 'ERROR: No data found for optimization metric'; in
\* both cases the optimal-target cell and every metric cell are
\* 'No data points', the row has 24 cells, and nothing is raised.
C6_FewPointsSentinels ==
    (/\ pc \in {"rows", "rows returned", "rows raised"}
     /\ rowCall # Undefined
     /\ \/ rowCall.points = Undefined
        \/ Len(rowCall.points.v) < 3) =>
        /\ ~rowCall.threw
        /\ Len(rowCall.row) = 24
        /\ rowCall.points = Undefined =>
              rowCall.row[5] = Str("ERROR: No points found")
        /\ rowCall.points # Undefined =>
              rowCall.row[5] =
                  Str("ERROR: No data found for optimization metric")
        /\ \A j \in 6..24 : rowCall.row[j] = Str("No data points")

\* A row was generated for a simulation with 2 points.
C6_Witness ==
    /\ rowCall # Undefined
    /\ rowCall.points # Undefined
    /\ Len(rowCall.points.v) = 2
    /\ rowCall.row[5] = Str("ERROR: No data found for optimization metric")
    /\ rowCall.row[24] = Str("No data points")

C8_AcceptedIff ==
    (/\ pc \in {"rows", "rows returned"}
     /\ rowCall # Undefined
     /\ rowCall.points # Undefined) =>
        \A k \in 1..Len(metrics) :
            LET m == metrics[k]
                data == rowCall.made.series[m]
                fit == rowCall.made.fits[m]
                good == /\ Len(data) >= 3
                        /\ fit # Null
                        /\ fit.rSquared # Null
                        /\ ~IsNaN(fit.rSquared)
                        /\ IsNum(fit.rSquared)
                        /\ fit.rSquared.v * 10 > 8 * Scale
            IN  /\ m \in DOMAIN rowCall.made.curves <=> good
                /\ Len(data) = Len(rowCall.points.v)
                /\ m \in DOMAIN rowCall.made.curves =>
                      rowCall.made.curves[m].curve = fit

\* Curves were made for a simulation with 3 points: profit was accepted
\* and cost, with an rSquared of exactly 0.8, was not.
C8_Witness ==
    /\ rowCall # Undefined
    /\ rowCall.points # Undefined
    /\ Len(rowCall.points.v) = 3
    /\ "profit" \in DOMAIN rowCall.made.curves
    /\ rowCall.made.fits["cost"].rSquared = Num((8 * Scale) \div 10)
    /\ "cost" \notin DOMAIN rowCall.made.curves

-----------------------------------------------------------------------------
(* Curve: the constructor, the loop of fit, and the three public methods *)

\* The default of the constructor's maxIterations.
MaxIterationsFit == 1000

\* A mutant of hasEnoughData: two pairs are enough.
hasTwoPairs(d) == d # Undefined /\ d # Null /\ Len(d.v) >= 2

\* data && data.length >= 3
hasEnoughData(d) == d # Undefined /\ d # Null /\ Len(d.v) >= 3

\* this.a === null || this.b === null || this.c === null, negated
isFitted(object) ==
    object.a # Null /\ object.b # Null /\ object.c # Null

\* The object as the analyzer and the operators predictValue and
\* calculateGradient above take it.
asCurve(object) ==
    [strategyType |-> object.strategyType, fitted |-> isFitted(object)]

\* The data a Curve is constructed from: none, or the profits of the first
\* n sample points against their targets.
CurveData(strategyType) ==
    {Undefined, Null} \cup
    {Arr(calculateValuePerMetric(strategyType, samplePoints(strategyType, n),
                                 Num(2000), "profit").result) :
        n \in 0..Len(SamplePointData)}

\* The parameters simplex[0] can hold when the loop of fit is left: finite
\* ones, or NaN where the losses were NaN.
FittedParams ==
    {<<Num(-2), Num(2), Num(-1)>>, <<Num(0), Num(0), Num(25)>>,
     <<NaN, NaN, NaN>>}

\* The targets the methods are called with.
MethodTargets == {Num(0), Num(1000), Num(4500), Num(50000), NaN}

\* [this.a, this.b, this.c] = simplex[0];
\* this.rSquared = this.calculateRSquared(data)
FitReturn ==
    /\ \E params \in FittedParams, r \in R2Values :
          self' = [self EXCEPT !.a = params[1], !.b = params[2],
                               !.c = params[3], !.rSquared = r]
    /\ iterations' = 0
    /\ pc' = "constructed"

\* The body of the constructor after the fields are set: fit is called for
\* at least 3 pairs, an error is logged otherwise.
Construct ==
    /\ pc = "constructor"
    /\ pc' = IF hasEnoughData(curveData) THEN "fit" ELSE "constructed"
    /\ UNCHANGED <<familyVars, shareVars, lossVars, loadVars, targetVars,
                   updateVars, runVars, curveVars, analyzerVars_, suggestVars,
                   seriesVars, sheetVars>>

\* One pass through the body of the while loop of fit: the simplex is
\* sorted and its worst point replaced (or the simplex shrunk), then
\* checkConvergence either breaks the loop or iterations is incremented.
\* The losses are floating-point values of the data: either may happen.
FitStep ==
    /\ pc = "fit"
    /\ iterations < self.maxIterations
    /\ \E convergence \in BOOLEAN :
          IF convergence
          THEN FitReturn
          ELSE /\ iterations' = iterations + 1
               /\ UNCHANGED <<pc, self>>
    /\ UNCHANGED <<familyVars, shareVars, lossVars, loadVars, targetVars,
                   updateVars, runVars, curveData, answer, analyzerVars_,
                   suggestVars, seriesVars, sheetVars>>

\* The while condition fails.
FitCap ==
    /\ pc = "fit"
    /\ iterations >= self.maxIterations
    /\ FitReturn
    /\ UNCHANGED <<familyVars, shareVars, lossVars, loadVars, targetVars,
                   updateVars, runVars, curveData, answer, analyzerVars_,
                   suggestVars, seriesVars, sheetVars>>

PredictValue ==
    /\ pc = "constructed"
    /\ \E t \in MethodTargets \cup {Undefined} :
       \E value \in predictValue(asCurve(self), t, ProfitValues) :
          answer' = [method |-> "predictValue", target |-> t,
                     value |-> value]
    /\ UNCHANGED <<familyVars, shareVars, lossVars, loadVars, targetVars,
                   updateVars, runVars, pc, self, curveData, iterations,
                   analyzerVars_, suggestVars, seriesVars, sheetVars>>

CalculateGradient ==
    /\ pc = "constructed"
    /\ \E t \in MethodTargets :
       \E value \in calculateGradient(asCurve(self), t,
                        [at |-> Undefined, g |-> Undefined]) :
          answer' = [method |-> "calculateGradient", target |-> t,
                     value |-> value]
    /\ UNCHANGED <<familyVars, shareVars, lossVars, loadVars, targetVars,
                   updateVars, runVars, pc, self, curveData, iterations,
                   analyzerVars_, suggestVars, seriesVars, sheetVars>>

GetRSquared ==
    /\ pc = "constructed"
    /\ answer' = [method |-> "getRSquared", target |-> Undefined,
                  value |-> self.rSquared]
    /\ UNCHANGED <<familyVars, shareVars, lossVars, loadVars, targetVars,
                   updateVars, runVars, pc, self, curveData, iterations,
                   analyzerVars_, suggestVars, seriesVars, sheetVars>>

\* The constructor has set strategyType, metricName, maxIterations and
\* tolerance; a, b, c and rSquared are null.
InitCurve ==
    /\ IdleFamily
    /\ IdleShare
    /\ IdleLoss
    /\ IdleLoad
    /\ IdleTarget
    /\ IdleUpdate
    /\ IdleRun
    /\ pc = "constructor"
    /\ IdleAnalyzer
    /\ IdleSuggest
    /\ IdleSeries
    /\ IdleSheet
    /\ \E strategyType \in {TARGET_ROAS, TARGET_CPA} :
          /\ self = [strategyType |-> strategyType,
                     metricName |-> "profit",
                     maxIterations |-> MaxIterationsFit,
                     a |-> Null, b |-> Null, c |-> Null, rSquared |-> Null]
          /\ curveData \in CurveData(strategyType)
    /\ iterations = 0
    /\ answer = Undefined

NextCurve ==
    \/ Construct
    \/ FitStep
    \/ FitCap
    \/ PredictValue
    \/ CalculateGradient
    \/ GetRSquared

SpecCurve == InitCurve /\ [][NextCurve]_vars

\* C11: a Curve constructed from no data or from fewer than 3 pairs is
\* never fitted: fit is not entered, a, b, c and rSquared stay null, and
\* every call of predictValue answers undefined, of calculateGradient null
\* and of getRSquared null.
C11_UnfittedStaysUnavailable ==
    (/\ pc \in {"constructor", "fit", "constructed"}
     /\ \/ curveData = Undefined
        \/ curveData = Null
        \/ Len(curveData.v) < 3) =>
        /\ pc # "fit"
        /\ self.a = Null /\ self.b = Null /\ self.c = Null
        /\ self.rSquared = Null
        /\ answer # Undefined =>
              /\ answer.method = "predictValue" => answer.value = Undefined
              /\ answer.method = "calculateGradient" => answer.value = Null
              /\ answer.method = "getRSquared" => answer.value = Null

\* calculateGradient was called on a Curve constructed from 2 pairs.
C11_Witness ==
    /\ pc = "constructed"
    /\ curveData # Undefined
    /\ curveData # Null
    /\ Len(curveData.v) = 2
    /\ answer # Undefined
    /\ answer.method = "calculateGradient"
    /\ answer.target = Num(4500)
    /\ answer.value = Null

\* C12: on the success path (the metric to optimize towards has an
\* accepted curve) the three cells of every metric with an accepted curve
\* are the predictions of that metric's curve at the current, the
\* suggested and the optimal target, less the offset of that metric's
\* series; the three cells of every other metric are 'N/A'.
C12_MetricCells ==
    (/\ pc \in {"rows", "rows returned"}
     /\ rowCall # Undefined
     /\ rowCall.path = "success") =>
        LET row == rowCall.row
            sim == simulations[position].simulation
            at == <<rowCall.currentTarget, row[5], row[6]>>
        IN  /\ metricToOptimizeTowards \in DOMAIN rowCall.made.curves
            /\ row[4] = rowCall.currentTarget
            /\ \A k \in 1..Len(metrics) : \A a \in 1..3 :
                  LET m == metrics[k]
                      cell == row[6 + 3 * (k - 1) + a]
                      own == calculateValuePerMetric(sim.type,
                                 getPoints(sim), rowCall.currentTarget, m)
                  IN  IF m \in DOMAIN rowCall.made.curves
                      THEN /\ cell.k = "predicted"
                           /\ cell.v.metric = m
                           /\ cell.v.target = at[a]
                           /\ cell.v.offset = own.valueToAdd
                           /\ rowCall.made.curves[m].curve =
                                 rowCall.made.fits[m]
                      ELSE cell = Str("N/A")

\* A success row: the profit cells carry the offset 51 of the profit
\* series, the conversion value cells the offset 0, and cost, whose curve
\* was rejected, is 'N/A'.
C12_Witness ==
    /\ rowCall # Undefined
    /\ rowCall.path = "success"
    /\ metrics = METRICS
    /\ rowCall.row[7].k = "predicted"
    /\ rowCall.row[7].v.offset = 51
    /\ rowCall.row[10] = Str("N/A")
    /\ rowCall.row[13].k = "predicted"
    /\ rowCall.row[13].v.offset = 0
    /\ rowCall.row[8].v.target = rowCall.row[5]

-----------------------------------------------------------------------------
(* The two iterative loops: the ascent of the analyzer and the fit of a
   Curve, each running on until it returns *)

InitLoops == InitAnalyzer \/ InitCurve

NextLoops ==
    \/ OptimizeStep
    \/ OptimizeCap
    \/ Construct
    \/ FitStep
    \/ FitCap

SpecLoops == InitLoops /\ [][NextLoops]_vars

\* C13: fit makes at most maxIterations = 1000 passes through its loop and
\* the ascent at most maxIterations passes (1000 for TARGET_ROAS, 100000
\* otherwise), whatever the losses and the gradients are: the counter
\* never passes the cap, every pass either leaves the loop or adds one to
\* the counter, a loop that has not been left can always take a step, and
\* the ascent returns a number.
C13_LoopsTerminate ==
    /\ [](pc = "fit" => iterations <= 1000)
    /\ [](pc \in {"loop", "returned"} =>
            i <= IF curve.strategyType = TARGET_ROAS THEN 1000 ELSE 100000)
    /\ [][pc = "fit" =>
            pc' = "constructed" \/ (pc' = "fit" /\ iterations' = iterations + 1)]_vars
    /\ [][pc = "loop" =>
            pc' = "returned" \/ (pc' = "loop" /\ i' = i + 1)]_vars
    /\ [](pc \in {"fit", "loop"} => ENABLED NextLoops)
    /\ [](pc = "returned" => IsNumberType(optimalTarget))

\* The ascent of a TARGET_CPA curve has returned after 100000 passes.
C13_Witness ==
    /\ pc = "returned"
    /\ exit = "cap"
    /\ curve.strategyType = TARGET_CPA
    /\ i = 100000

\* C15: over an unfitted curve the ascent returns in its first pass, by
\* the return of the null gradient, and returns the initial target of the
\* curve's strategy type: 4.5 for TARGET_ROAS, 50 otherwise; and only an
\* unfitted curve makes it return that way.
C15_NoGradientReturnsInitialTarget ==
    /\ (pc \in {"loop", "returned"} /\ ~curve.fitted) => i = 0
    /\ (pc = "returned" /\ (~curve.fitted \/ exit = "no gradient")) =>
          /\ ~curve.fitted
          /\ exit = "no gradient"
          /\ i = 0
          /\ optimalTarget =
                IF curve.strategyType = TARGET_ROAS
                THEN Num((45 * Scale) \div 10)
                ELSE Num(50 * Scale)

\* The ascent over an unfitted TARGET_CPA curve has returned 50.
C15_Witness ==
    /\ pc = "returned"
    /\ exit = "no gradient"
    /\ curve.strategyType = TARGET_CPA
    /\ ~curve.fitted
    /\ optimalTarget = Num(50000)

-----------------------------------------------------------------------------
(* Two rows for the same entity: Curve.fit on numbers, the ascent, the     *)
(* suggestion and the predicted cells                                      *)

\* The polynomial family (TARGET_CPA) is computed here on fixed-point
\* numbers: parameters, targets and values in thousandths (Scale), errors
\* and losses in hundredths.  The power family needs exp and ln and is not
\* computed.
ErrorUnit == 10

\* 1 / tolerance of the constructor (1e-6).
FitToleranceInverse == 1000000

\* The largest r in lo..hi with r * r <= n.
RECURSIVE sqrtBetween(_, _, _)
sqrtBetween(n, lo, hi) ==
    IF lo >= hi THEN lo
    ELSE LET mid == (lo + hi + 1) \div 2
         IN  IF mid * mid <= n
             THEN sqrtBetween(n, mid, hi)
             ELSE sqrtBetween(n, lo, mid - 1)

\* Math.sqrt, rounded down.
sqrt(n) == sqrtBetween(n, 0, 46340)

\* y = a*x^2 + b*x + c
predictValuePolynomial(params, tcpa) ==
    (((params[1] * tcpa) \div Scale) * tcpa) \div Scale
        + (params[2] * tcpa) \div Scale
        + params[3]

\* totalErrorSquared after the points j.. of data.
RECURSIVE totalErrorSquared(_, _, _)
totalErrorSquared(data, params, j) ==
    IF j > Len(data) THEN 0
    ELSE LET error ==
                 (data[j][2] - predictValuePolynomial(params, data[j][1]))
                     \div ErrorUnit
         IN  error * error + totalErrorSquared(data, params, j + 1)

\* Math.sqrt(totalErrorSquared / data.length)
calculateLossPolynomial(data, params) ==
    sqrt(totalErrorSquared(data, params, 1) \div Len(data))

RECURSIVE sumOfY(_, _)
sumOfY(data, j) ==
    IF j > Len(data) THEN 0 ELSE data[j][2] + sumOfY(data, j + 1)

RECURSIVE totalSumOfSquares(_, _, _)
totalSumOfSquares(data, meanY, j) ==
    IF j > Len(data) THEN 0
    ELSE LET deviation == (data[j][2] - meanY) \div ErrorUnit
         IN  deviation * deviation + totalSumOfSquares(data, meanY, j + 1)

\* calculateRSquared, in thousandths.
calculateRSquared(data, params) ==
    LET meanY == sumOfY(data, 1) \div Len(data)
        total == totalSumOfSquares(data, meanY, 1)
        residual == totalErrorSquared(data, params, 1)
    IN  IF total = 0 THEN 1 * Scale
        ELSE 1 * Scale - (residual * Scale) \div total

\* [initialParams] and one point per parameter, that parameter times 1.05.
initializeSimplex(params) ==
    <<params>> \o
    [j \in 1..Len(params) |->
        [params EXCEPT ![j] = (params[j] * 105) \div 100]]

\* simplex.sort((a, b) => loss(a) - loss(b)): ascending by loss, points of
\* equal loss in the order they had.
sortByLoss(data, points) ==
    LET loss == <<>> \o [k \in 1..Len(points) |->
                            calculateLossPolynomial(data, points[k])]
        rank(k) ==
            1 + Cardinality({m \in 1..Len(points) :
                                \/ loss[m] < loss[k]
                                \/ loss[m] = loss[k] /\ m < k})
    IN  <<>> \o [r \in 1..Len(points) |->
                    points[CHOOSE k \in 1..Len(points) : rank(k) = r]]

RECURSIVE sumOfCoordinate(_, _, _)
sumOfCoordinate(points, j, upTo) ==
    IF upTo = 0 THEN 0
    ELSE points[upTo][j] + sumOfCoordinate(points, j, upTo - 1)

\* The centre of the first `dimensions` points.
calculateCentroid(points, dimensions) ==
    <<>> \o [j \in 1..dimensions |->
                sumOfCoordinate(points, j, dimensions) \div dimensions]

\* centroid + factor * (centroid - point), the factor given in halves.
reflect(centroid, point, halves) ==
    <<>> \o [j \in 1..Len(centroid) |->
                centroid[j] + (halves * (centroid[j] - point[j])) \div 2]

\* A mutant of shrink: every point moves half the way to `best`, the
\* first towards the second.
shrinkAll(points, best) ==
    <<>> \o [k \in 1..Len(points) |->
                <<>> \o [j \in 1..Len(best) |->
                            IF k = 1
                            THEN best[j] + (points[2][j] - best[j]) \div 2
                            ELSE best[j] + (points[k][j] - best[j]) \div 2]]

\* Every point but the first moves half the way to `best`.
shrink(points, best) ==
    <<>> \o [k \in 1..Len(points) |->
                IF k = 1 THEN points[1]
                ELSE <<>> \o [j \in 1..Len(best) |->
                                 best[j] + (points[k][j] - best[j]) \div 2]]

\* A mutant of contractionFactor: the two directions exchanged.
contractionFactorExchanged(lossReflected, lossWorst) ==
    IF lossReflected < lossWorst THEN -1 ELSE 1

\* The factor given to reflect for the contraction, in halves:
\* contractionFactor if lossReflected < lossWorst, -contractionFactor
\* otherwise.
contractionFactor(lossReflected, lossWorst) ==
    IF lossReflected < lossWorst THEN 1 ELSE -1

\* What one pass of the while loop of fit does to the sorted simplex: it
\* assigns a new point to simplex[n] (the reflected, expanded or
\* contracted one), or it shrinks.
passOf(data, sorted, n) ==
    LET best == sorted[1]
        worst == sorted[n + 1]
        secondWorst == sorted[n]
        centroid == calculateCentroid(sorted, n)
        reflected == reflect(centroid, worst, 2)
        lossReflected == calculateLossPolynomial(data, reflected)
        lossWorst == calculateLossPolynomial(data, worst)
        lossBest == calculateLossPolynomial(data, best)
        lossSecondWorst == calculateLossPolynomial(data, secondWorst)
        expanded == reflect(centroid, worst, 4)
        contracted ==
            reflect(centroid, worst,
                    contractionFactor(lossReflected, lossWorst))
    IN  IF lossReflected < lossBest
        THEN [shrink |-> FALSE,
              point |->
                 IF calculateLossPolynomial(data, expanded) < lossReflected
                 THEN expanded
                 ELSE reflected]
        ELSE IF lossReflected < lossSecondWorst
        THEN [shrink |-> FALSE, point |-> reflected]
        ELSE IF calculateLossPolynomial(data, contracted) < lossWorst
        THEN [shrink |-> FALSE, point |-> contracted]
        ELSE [shrink |-> TRUE, point |-> best]

\* The simplex after the sort and the reflection, expansion, contraction or
\* shrink of one pass of the while loop of fit.
replaceWorst(data, points, n) ==
    LET sorted == sortByLoss(data, points)
        pass == passOf(data, sorted, n)
    IN  IF pass.shrink
        THEN shrink(sorted, pass.point)
        ELSE [sorted EXCEPT ![n + 1] = pass.point]

\* maxLossDifference < tolerance, the losses being in hundredths.
checkConvergence(data, points) ==
    \A k \in 2..Len(points) :
        Abs(calculateLossPolynomial(data, points[k])
                - calculateLossPolynomial(data, points[1]))
            < CeilDiv(Scale \div ErrorUnit, FitToleranceInverse)

\* let initialParams = [-2, 2, -0.5]; for TARGET_CPA [0.1, 1, 25]
initialParamsOf(simType) ==
    IF simType = TARGET_CPA
    THEN <<100, 1 * Scale, 25 * Scale>>
    ELSE <<-2 * Scale, 2 * Scale, -500>>

\* A mutant of startLearningRate: the ascent goes on with the learning
\* rate the previous call ended with.
keptLearningRate(cfg, left) == IF left = 0 THEN cfg.learningRate ELSE left

\* let learningRate = initialLearningRate: the ascent starts from the rate
\* of the config, whatever rate `left` the previous call ended with.
startLearningRate(cfg, left) == cfg.learningRate

\* The entities the two rows are generated for: TARGET_CPA simulations with
\* their profit series [target, profit + offset], the offset and the
\* current target.  The fit of the series converges and is accepted (with
\* and without a decay of the learning rate in the ascent), converges and
\* is rejected, or runs to maxIterations; the last has too few points.
RunSeries ==
    { <<<<10000, 0>>, <<20000, 30000>>, <<30000, 40000>>>>,
      <<<<1000, 0>>, <<2000, 20000>>, <<3000, 20000>>, <<4000, 30000>>>>,
      <<<<10000, 0>>, <<20000, 20000>>, <<30000, 10000>>>>,
      <<<<10000, 10000>>, <<20000, 26000>>, <<30000, 26000>>>>,
      <<<<10000, 0>>, <<20000, 30000>>>> }

RunInputs ==
    [simType : {TARGET_CPA},
     data : RunSeries,
     offset : {0, 10},
     currentTarget : {Num(40 * Scale), Num(60 * Scale)}]

\* row.push(...) of the cells of the optimization metric.
rowCells(cells) == [cells |-> cells]

\* generateSuggestionsRow begins: initialParams is a new array, and the
\* Curve of the optimization metric is constructed on the series.
RunStart ==
    /\ pc = "row"
    /\ initialParams' = initialParamsOf(runInput.simType)
    /\ curveData' = Arr(runInput.data)
    /\ self' = [strategyType |-> runInput.simType,
                maxIterations |-> MaxIterationsFit,
                a |-> Null, b |-> Null, c |-> Null, rSquared |-> Null]
    /\ iterations' = 0
    /\ IF hasEnoughData(curveData')
       THEN /\ simplex' = initializeSimplex(initialParams')
            /\ history' = <<[simplex |-> simplex']>>
            /\ pc' = "row fit"
       ELSE /\ simplex' = simplex
            /\ history' = <<rowCells(<<Str("N/A"), Str("N/A"), Str("N/A")>>)>>
            /\ pc' = "row done"
    /\ UNCHANGED <<familyVars, shareVars, lossVars, loadVars, targetVars,
                   updateVars, run, runInput, firstRun, answer, analyzerVars_,
                   suggestVars, seriesVars, sheetVars>>

\* One pass through the body of the while loop of fit.
RunFit ==
    /\ pc = "row fit"
    /\ iterations < self.maxIterations
    /\ simplex' = replaceWorst(curveData.v, simplex, Len(initialParams))
    /\ history' = Append(history, [simplex |-> simplex'])
    /\ IF checkConvergence(curveData.v, simplex')
       THEN pc' = "row fitted" /\ UNCHANGED iterations
       ELSE iterations' = iterations + 1 /\ UNCHANGED pc
    /\ UNCHANGED <<familyVars, shareVars, lossVars, loadVars, targetVars,
                   updateVars, run, runInput, initialParams, firstRun, self,
                   curveData, answer, analyzerVars_, suggestVars, seriesVars,
                   sheetVars>>

\* The while loop of fit ran maxIterations times.
RunFitCap ==
    /\ pc = "row fit"
    /\ iterations >= self.maxIterations
    /\ pc' = "row fitted"
    /\ UNCHANGED <<familyVars, shareVars, lossVars, loadVars, targetVars,
                   updateVars, runVars, curveVars, analyzerVars_, suggestVars,
                   seriesVars, sheetVars>>

\* fit ends: simplex[0] becomes a, b, c and rSquared is computed.  The
\* curve is kept if its rSquared is above the threshold, and then
\* getTargetSuggestions builds the analyzer and the ascent begins.
RunFitted ==
    /\ pc = "row fitted"
    /\ LET params == simplex[1]
           cfg == getOptimizationConfig(runInput.simType)
       IN  /\ self' = [self EXCEPT
                          !.a = Num(params[1]),
                          !.b = Num(params[2]),
                          !.c = Num(params[3]),
                          !.rSquared =
                              Num(calculateRSquared(curveData.v, params))]
           /\ IF aboveThreshold(self'.rSquared)
              THEN /\ curve' = [strategyType |-> runInput.simType,
                                fitted |-> isFitted(self'),
                                params |-> params]
                   /\ target' = Num(cfg.initialTarget)
                   /\ learningRate' = startLearningRate(cfg, learningRate)
                   /\ previousTarget' = Num(0)
                   /\ i' = 0
                   /\ exit' = "running"
                   /\ history' = Append(history, [fitted |-> self'])
                   /\ pc' = "loop"
              ELSE /\ history' =
                          Append(Append(history, [fitted |-> self']),
                                 rowCells(<<Str("N/A"), Str("N/A"),
                                            Str("N/A")>>))
                   /\ pc' = "row done"
                   /\ UNCHANGED <<curve, target, learningRate, previousTarget,
                                  i, exit>>
    /\ UNCHANGED <<familyVars, shareVars, lossVars, loadVars, targetVars,
                   updateVars, run, runInput, initialParams, simplex, firstRun,
                   curveData, iterations, answer, lastGradient, optimalTarget,
                   suggestVars, seriesVars, sheetVars>>

\* What a pass of the ascent leaves behind.
ascentState ==
    [i |-> i, target |-> target, previousTarget |-> previousTarget,
     learningRate |-> learningRate, exit |-> exit,
     optimalTarget |-> IF pc = "returned" THEN optimalTarget ELSE Undefined]

\* One pass through the body of the for loop of the ascent.  The ascents
\* over the curves of RunSeries end by convergence, before maxIterations.
RunAscent ==
    /\ OptimizeBody
    /\ history' = Append(history, ascentState')
    /\ UNCHANGED <<familyVars, shareVars, lossVars, loadVars, targetVars,
                   updateVars, run, runInput, initialParams, simplex, firstRun,
                   curveVars, curve, suggestVars, seriesVars, sheetVars>>

\* suggestNewTarget on the optimum, then the three cells of the metric:
\* the predictions at the current, suggested and optimal target, each
\* minus the offset.
RunSuggest ==
    /\ pc = "returned"
    /\ LET predict(t) ==
               IF IsNum(t)
               THEN Num(predictValuePolynomial(curve.params, t.v))
               ELSE NaN
           cell(t) ==
               IF IsNum(predict(t))
               THEN Num(predict(t).v - runInput.offset)
               ELSE NaN
       IN  /\ currentTarget' = runInput.currentTarget
           /\ profitTarget' = predict(currentTarget')
           /\ profitOptimal' = predict(optimalTarget)
           /\ suggestedTarget' =
                  suggestNewTarget(currentTarget', optimalTarget,
                                   curve.strategyType, profitTarget',
                                   profitOptimal')
           /\ history' =
                  Append(Append(history,
                                [optimalTarget |-> optimalTarget,
                                 suggestedTarget |-> suggestedTarget']),
                         rowCells(<<cell(currentTarget'),
                                    cell(suggestedTarget'),
                                    cell(optimalTarget)>>))
    /\ pc' = "row done"
    /\ UNCHANGED <<familyVars, shareVars, lossVars, loadVars, targetVars,
                   updateVars, run, runInput, initialParams, simplex, firstRun,
                   curveVars, analyzerVars_, seriesVars, sheetVars>>

\* The next entity of the list is the same entity again: its row is
\* generated by the same sheet object, after the first.
RunAgain ==
    /\ pc = "row done"
    /\ run = 1
    /\ run' = 2
    /\ firstRun' = history
    /\ pc' = "row"
    /\ UNCHANGED <<familyVars, shareVars, lossVars, loadVars, targetVars,
                   updateVars, runInput, initialParams, simplex, history,
                   curveVars, analyzerVars_, suggestVars, seriesVars,
                   sheetVars>>

InitRuns ==
    /\ IdleFamily
    /\ IdleShare
    /\ IdleLoss
    /\ IdleLoad
    /\ IdleTarget
    /\ IdleUpdate
    /\ IdleAnalyzer
    /\ IdleSuggest
    /\ IdleSeries
    /\ IdleSheet
    /\ IdleCurve
    /\ pc = "row"
    /\ run = 1
    /\ runInput \in RunInputs
    /\ initialParams = <<>>
    /\ simplex = <<>>
    /\ history = <<>>
    /\ firstRun = <<>>

NextRuns ==
    \/ RunStart
    \/ RunFit
    \/ RunFitCap
    \/ RunFitted
    \/ RunAscent
    \/ RunSuggest
    \/ RunAgain

SpecRuns == InitRuns /\ [][NextRuns]_vars

-----------------------------------------------------------------------------
(* TargetsSheet.update *)

\* A resource name is kept as the sequence of its pieces (words, slashes
\* and the digits of the ids), so that indexOf searches it as the code
\* does; a customer id is the sequence of its digits.
resourceNameOf(customer, collection, id) ==
    <<"customers", "/">> \o customer \o <<"/", collection, "/">> \o id

\* The first position at or after `from` where `searched` occurs in
\* `text`, counted from 0, or -1.
RECURSIVE indexFrom(_, _, _)
indexFrom(text, searched, from) ==
    IF from + Len(searched) > Len(text) THEN -1
    ELSE IF SubSeq(text, from + 1, from + Len(searched)) = searched
    THEN from
    ELSE indexFrom(text, searched, from + 1)

\* text.indexOf(searched)
indexOf(text, searched) == indexFrom(text, searched, 0)

\* The strings of the cells that Number() reads as a number.
NumericStrings == ("6" :> 6 * Scale) @@ ("0" :> 0) @@ (" " :> 0)

\* Number(x), for a number or a string: '' is 0, a string that is not a
\* numeral is NaN.
Number(x) ==
    IF IsNumberType(x) THEN x
    ELSE IF x = Str("") THEN Num(0)
    ELSE IF x.k = "str" /\ x.v \in DOMAIN NumericStrings
    THEN Num(NumericStrings[x.v])
    ELSE NaN

\* A mutant of greaterThanZero: x >= 0.
zeroOrGreater(x) == x = PosInf \/ (IsNum(x) /\ x.v >= 0)

\* x > 0
greaterThanZero(x) == x = PosInf \/ (IsNum(x) /\ x.v > 0)

\* The test of the filter that gives toUpdate.
isChangedTarget(r) ==
    IF r.NEW_TARGET # r.CURRENT_TARGET
    THEN r.NEW_TARGET # Str("") /\ greaterThanZero(Number(r.NEW_TARGET))
    ELSE FALSE

\* createBiddingOperation(row): the operation, or the exception for a
\* strategy type that is none of the four.
createBiddingOperation(row) ==
    LET update(mask) ==
            [threw |-> FALSE,
             value |-> [updateMask |-> mask,
                        resourceName |-> row.ID,
                        target |-> row.NEW_TARGET]]
    IN  IF row.STRATEGY_TYPE = MAXIMIZE_CONVERSION_VALUE
        THEN update("maximizeConversionValue.targetRoas")
        ELSE IF row.STRATEGY_TYPE = MAXIMIZE_CONVERSIONS
        THEN update("maximizeConversions.targetCpaMicros")
        ELSE IF row.STRATEGY_TYPE = TARGET_ROAS
        THEN update("targetRoas.targetRoas")
        ELSE IF row.STRATEGY_TYPE = TARGET_CPA
        THEN update("targetCpa.targetCpaMicros")
        ELSE [threw |-> TRUE, value |-> Undefined]

\* {name: operation}
wrapOperation(name, made) ==
    IF made.threw THEN made
    ELSE [threw |-> FALSE,
          value |-> [operation |-> name] @@ made.value]

createBiddingStrategyOperation(row) ==
    wrapOperation("biddingStrategyOperation", createBiddingOperation(row))

createCampaignOperation(row) ==
    wrapOperation("campaignOperation", createBiddingOperation(row))

createAdGroupOperation(row) ==
    LET update(mask) ==
            [threw |-> FALSE,
             value |-> [operation |-> "adGroupOperation",
                        updateMask |-> mask,
                        resourceName |-> row.ID,
                        target |-> row.NEW_TARGET]]
    IN  IF row.STRATEGY_TYPE \in {TARGET_ROAS, MAXIMIZE_CONVERSION_VALUE}
        THEN update("targetRoas")
        ELSE IF row.STRATEGY_TYPE \in {TARGET_CPA, MAXIMIZE_CONVERSIONS}
        THEN update("targetCpaMicros")
        ELSE [threw |-> TRUE, value |-> Undefined]

\* rows.filter(r => r[ID].indexOf(cid + '/<collection>') > -1)
rowsOfCustomer(rows, cid, collection) ==
    LET matches(r) == indexOf(r.ID, cid \o <<"/", collection>>) > -1
    IN  SelectSeq(rows, matches)

\* rows.map(create): the operations, or the first exception.
RECURSIVE mapOperations(_, _, _, _)
mapOperations(rows, collection, j, made) ==
    IF j > Len(rows) \/ made.threw THEN made
    ELSE LET operation ==
                 IF collection = "biddingStrategies"
                 THEN createBiddingStrategyOperation(rows[j])
                 ELSE IF collection = "campaigns"
                 THEN createCampaignOperation(rows[j])
                 ELSE createAdGroupOperation(rows[j])
         IN  mapOperations(rows, collection, j + 1,
                 IF operation.threw
                 THEN [threw |-> TRUE, value |-> made.value]
                 ELSE [threw |-> FALSE,
                       value |-> Append(made.value, operation.value)])

operationsOf(rows, cid, collection) ==
    mapOperations(rowsOfCustomer(rows, cid, collection), collection, 1,
                  [threw |-> FALSE, value |-> <<>>])

\* A mutant of spreadOperations: the campaign operations come first.
spreadCampaignsFirst(strategyOperations, campaignOperations, groupOperations) ==
    campaignOperations \o strategyOperations \o groupOperations

\* [...biddingStrategyOperations, ...campaignOperations, ...adGroupOperations]
spreadOperations(strategyOperations, campaignOperations, groupOperations) ==
    strategyOperations \o campaignOperations \o groupOperations

\* mutateOperations of one pass of the loop over cids, or the exception
\* of the first operation that cannot be created.
mutateOperationsOf(rows, cid) ==
    LET biddingStrategyOperations ==
            operationsOf(rows, cid, "biddingStrategies")
        campaignOperations == operationsOf(rows, cid, "campaigns")
        adGroupOperations == operationsOf(rows, cid, "adGroups")
    IN  IF biddingStrategyOperations.threw
           \/ campaignOperations.threw
           \/ adGroupOperations.threw
        THEN [threw |-> TRUE, value |-> <<>>]
        ELSE [threw |-> FALSE,
              value |-> spreadOperations(biddingStrategyOperations.value,
                                         campaignOperations.value,
                                         adGroupOperations.value)]

\* What a call of the API can do: return, or throw (account not found,
\* invalid customer id, response code >= 400).
ApiOutcomes == {"returned", "thrown"}

\* The four searches of getAllTargets.
searches ==
    <<[call |-> "searchStream", of |-> "bidding_strategy"],
      [call |-> "searchStream", of |-> "campaign"],
      [call |-> "searchStream", of |-> "ad_group.target_roas"],
      [call |-> "searchStream", of |-> "ad_group.target_cpa_micros"]>>

\* update reads the sheet and filters the rows to update.
UpdateFilter ==
    /\ pc = "update"
    /\ toUpdate' = SelectSeq(editData, isChangedTarget)
    /\ cidIndex' = 1
    /\ pc' = "customers"
    /\ UNCHANGED <<familyVars, shareVars, lossVars, loadVars, targetVars,
                   editData, cids, calls, runVars, curveVars, analyzerVars_,
                   suggestVars, seriesVars, sheetVars>>

\* One pass of the loop over cids: the operations of the customer are
\* made and, if there are any, sent.
UpdateCustomer ==
    /\ pc = "customers"
    /\ cidIndex <= Len(cids)
    /\ LET cid == cids[cidIndex]
           mutateOperations == mutateOperationsOf(toUpdate, cid)
       IN  IF mutateOperations.threw
           THEN pc' = "update raised" /\ UNCHANGED <<calls, cidIndex>>
           ELSE IF Len(mutateOperations.value) > 0
           THEN \E outcome \in ApiOutcomes :
                   /\ calls' = Append(calls,
                                  [call |-> "mutateTargets",
                                   cid |-> cid,
                                   operations |-> mutateOperations.value])
                   /\ IF outcome = "thrown"
                      THEN pc' = "update raised" /\ UNCHANGED cidIndex
                      ELSE cidIndex' = cidIndex + 1 /\ UNCHANGED pc
           ELSE cidIndex' = cidIndex + 1 /\ UNCHANGED <<pc, calls>>
    /\ UNCHANGED <<familyVars, shareVars, lossVars, loadVars, targetVars,
                   editData, cids, toUpdate, runVars, curveVars, analyzerVars_,
                   suggestVars, seriesVars, sheetVars>>

\* After the loop: this.load(googleAdsClient), the searches and then
\* updateRows on the Targets sheet.
UpdateLoad ==
    /\ pc = "customers"
    /\ cidIndex > Len(cids)
    /\ \E outcome \in ApiOutcomes :
          IF outcome = "thrown"
          THEN /\ calls' = Append(calls, searches[1])
               /\ pc' = "update raised"
          ELSE /\ calls' = calls \o searches \o <<[call |-> "updateRows"]>>
               /\ pc' = "updated"
    /\ UNCHANGED <<familyVars, shareVars, lossVars, loadVars, targetVars,
                   editData, cids, toUpdate, cidIndex, runVars, curveVars,
                   analyzerVars_, suggestVars, seriesVars, sheetVars>>

\* The header row of the Targets sheet.
TargetsHeaders ==
    [ID |-> <<"ID">>,
     STRATEGY_TYPE |-> "Bidding strategy type",
     CURRENT_TARGET |-> Str("Current target"),
     NEW_TARGET |-> Str("New target")]

targetsRow(customer, collection, id, type, current, new) ==
    [ID |-> resourceNameOf(customer, collection, id),
     STRATEGY_TYPE |-> type,
     CURRENT_TARGET |-> current,
     NEW_TARGET |-> new]

\* The customers of the sample rows: 123, 23 (whose id ends the id 123)
\* and 456.
Customer123 == <<"1", "2", "3">>
Customer23 == <<"2", "3">>
Customer456 == <<"4", "5", "6">>

\* The rows a sheet is made of: changed targets of the three collections,
\* an unchanged one, an emptied one, a text, a zero, a negative number, a
\* numeral typed as text, and a row whose strategy type is none of the
\* four.
SampleTargetsRows ==
    <<targetsRow(Customer123, "biddingStrategies", <<"1">>, TARGET_ROAS,
                 Num(5000), Num(6000)),
      targetsRow(Customer123, "campaigns", <<"2">>, TARGET_CPA,
                 Num(10000), Num(12000)),
      targetsRow(Customer123, "adGroups", <<"3">>, TARGET_ROAS,
                 Num(2000), Num(2500)),
      targetsRow(Customer123, "campaigns", <<"4">>, TARGET_ROAS,
                 Num(3000), Num(3000)),
      targetsRow(Customer456, "campaigns", <<"5">>, TARGET_ROAS,
                 Num(7000), Num(8000)),
      targetsRow(Customer123, "campaigns", <<"6">>, TARGET_CPA,
                 Num(10000), Str("")),
      targetsRow(Customer123, "adGroups", <<"7">>, MAXIMIZE_CONVERSIONS,
                 Num(10000), Str("abc")),
      targetsRow(Customer123, "adGroups", <<"8">>, TARGET_CPA,
                 Num(10000), Num(0)),
      targetsRow(Customer456, "biddingStrategies", <<"9">>,
                 MAXIMIZE_CONVERSION_VALUE, Num(4000), Num(-1000)),
      targetsRow(Customer23, "campaigns", <<"1", "0">>, TARGET_ROAS,
                 Num(4000), Str("6")),
      targetsRow(Customer123, "campaigns", <<"1", "1">>, "MANUAL_CPC",
                 Num(1000), Num(2000))>>

\* The most rows below the header.
MaxTargetsRows == 3

\* The sheets of n rows: the header, then sample rows, each at most once,
\* in any order.
TargetsSheetsOfLength(n) ==
    {<<TargetsHeaders>> \o [j \in 1..n |-> SampleTargetsRows[f[j]]] :
        f \in {g \in [1..n -> 1..Len(SampleTargetsRows)] :
                  \A j, k \in 1..n : j # k => g[j] # g[k]}}

TargetsSheets ==
    UNION {TargetsSheetsOfLength(n) : n \in 0..MaxTargetsRows}

\* The configured customer ids, each listed once.
CidLists ==
    {<<>>, <<Customer123>>, <<Customer456>>, <<Customer123, Customer456>>,
     <<Customer123, Customer23>>, <<Customer23, Customer123>>}

InitUpdate ==
    /\ IdleFamily
    /\ IdleShare
    /\ IdleLoss
    /\ IdleLoad
    /\ IdleTarget
    /\ IdleAnalyzer
    /\ IdleSuggest
    /\ IdleSeries
    /\ IdleSheet
    /\ IdleCurve
    /\ IdleRun
    /\ pc = "update"
    /\ editData \in TargetsSheets
    /\ cids \in CidLists
    /\ toUpdate = <<>>
    /\ cidIndex = 0
    /\ calls = <<>>

NextUpdate == UpdateFilter \/ UpdateCustomer \/ UpdateLoad

SpecUpdate == InitUpdate /\ [][NextUpdate]_vars

\* C16: every operation of every mutateTargets call comes from a row of
\* the sheet, below the header, whose 'New target' differs from its
\* 'Current target', is not the empty string and has a numeric value
\* greater than 0; so the header row and the unchanged, emptied,
\* non-numeric and non-positive rows are in no call.
C16_OnlyChangedPositiveTargetsSent ==
    \A c \in 1..Len(calls) :
        calls[c].call = "mutateTargets" =>
            \A o \in 1..Len(calls[c].operations) :
                LET operation == calls[c].operations[o]
                IN  /\ operation.resourceName # TargetsHeaders.ID
                    /\ \E r \in 2..Len(editData) :
                          /\ editData[r].ID = operation.resourceName
                          /\ editData[r].NEW_TARGET = operation.target
                          /\ editData[r].NEW_TARGET
                                 # editData[r].CURRENT_TARGET
                          /\ editData[r].NEW_TARGET # Str("")
                          /\ IsNum(Number(editData[r].NEW_TARGET))
                          /\ Number(editData[r].NEW_TARGET).v > 0

\* An update has sent the changed row of a sheet that also has an
\* unchanged row and a row whose new target is 0, all of customer 123.
C16_Witness ==
    /\ pc = "updated"
    /\ cids = <<Customer123>>
    /\ Len(editData) = 4
    /\ \E r \in 2..4 :
          editData[r].NEW_TARGET = editData[r].CURRENT_TARGET
    /\ \E r \in 2..4 : editData[r].NEW_TARGET = Num(0)
    /\ \E c \in 1..Len(calls) :
          /\ calls[c].call = "mutateTargets"
          /\ Len(calls[c].operations) = 1

\* C17: an operation is sent only in the mutateTargets call of the
\* customer named in the customer segment of its resource name, and once
\* the update is done every selected row of a configured customer has been
\* sent in the call of that customer.
C17_RowsSentToOwnCustomerOnly ==
    LET customerOf(name) ==
            SubSeq(name, 3, 2 + indexOf(SubSeq(name, 3, Len(name)), <<"/">>))
        sentIn(c, name) ==
            /\ calls[c].call = "mutateTargets"
            /\ \E o \in 1..Len(calls[c].operations) :
                  calls[c].operations[o].resourceName = name
    IN  /\ \A c \in 1..Len(calls) :
              calls[c].call = "mutateTargets" =>
                  \A o \in 1..Len(calls[c].operations) :
                      customerOf(calls[c].operations[o].resourceName)
                          = calls[c].cid
        /\ pc = "updated" =>
              \A r \in 1..Len(toUpdate) :
                  (\E k \in 1..Len(cids) : cids[k] = customerOf(toUpdate[r].ID))
                      => \E c \in 1..Len(calls) :
                            /\ sentIn(c, toUpdate[r].ID)
                            /\ calls[c].cid = customerOf(toUpdate[r].ID)

C19_UpdateEndsWithLoad ==
    pc \in {"updated", "update raised"} =>
        /\ Len(calls) > 0
        /\ calls[Len(calls)].call = "updateRows"
        /\ \A c, d \in 1..Len(calls) :
              (c < d /\ calls[c].call = "searchStream")
                  => calls[d].call # "mutateTargets"

-----------------------------------------------------------------------------
(* GoogleAdsClient.getEntityTarget on its own *)

\* One call of getEntityTarget(strategyType, entity).
GetEntityTarget ==
    /\ pc = "target"
    /\ entityTarget'
           = getEntityTarget(targetArgs.strategyType, targetArgs.entity)
    /\ pc' = "target returned"
    /\ UNCHANGED <<familyVars, shareVars, lossVars, loadVars, targetArgs,
                   updateVars, runVars, curveVars, analyzerVars_, suggestVars,
                   seriesVars, sheetVars>>

\* The values of the six target fields of the response interfaces: a
\* field the response leaves out is undefined, targetRoas is a number
\* on an ad group and an object elsewhere, and the object of a
\* maximize strategy that has no target set comes without its value
\* (TargetsSheet reads it as maximizeConversions?.targetCpaMicros).
TargetEntities ==
    [maximizeConversionValue :
         {Undefined, Obj([targetRoas |-> Num(800)]),
          Obj([targetRoas |-> Undefined])},
     targetRoas :
         {Undefined, Num(3000), Obj([targetRoas |-> Num(500)])},
     effectiveTargetRoas : {Undefined, Num(1200)},
     maximizeConversions :
         {Undefined, Obj([targetCpaMicros |-> Num(10000000)]),
          Obj([targetCpaMicros |-> Undefined])},
     targetCpa : {Undefined, Obj([targetCpaMicros |-> Num(5000000)])},
     effectiveTargetCpaMicros : {Undefined, Num(15000000)}]

InitTarget ==
    /\ IdleFamily
    /\ IdleShare
    /\ IdleLoss
    /\ IdleLoad
    /\ IdleAnalyzer
    /\ IdleSuggest
    /\ IdleSeries
    /\ IdleSheet
    /\ IdleCurve
    /\ IdleRun
    /\ IdleUpdate
    /\ pc = "target"
    /\ targetArgs \in [strategyType : StrategyType, entity : TargetEntities]
    /\ entityTarget = Undefined

NextTarget == GetEntityTarget

SpecTarget == InitTarget /\ [][NextTarget]_vars

\* C20: what getEntityTarget returned is the first target that is present
\* among, for TARGET_ROAS and MAXIMIZE_CONVERSION_VALUE, the entity's
\* maximizeConversionValue.targetRoas, targetRoas (the number, or the
\* targetRoas of the object) and effectiveTargetRoas, and, for TARGET_CPA
\* and MAXIMIZE_CONVERSIONS, the targetCpaMicros of maximizeConversions,
\* the targetCpaMicros of targetCpa and effectiveTargetCpaMicros, each of
\* the three divided by 1e6; it is undefined when none of them is
\* present; and it is no target of the other family.
C20_FirstPresentTargetOfFamily ==
    LET entity == targetArgs.entity
        valueIn(container, field) ==
            IF container.k = "object" THEN container.v[field] ELSE Undefined
        divided(micros) ==
            IF micros.k = "num" THEN Num(micros.v \div 1000) ELSE micros
        roas ==
            <<valueIn(entity.maximizeConversionValue, "targetRoas"),
              IF entity.targetRoas.k = "object"
              THEN entity.targetRoas.v.targetRoas
              ELSE entity.targetRoas,
              entity.effectiveTargetRoas>>
        cpa ==
            <<divided(valueIn(entity.maximizeConversions, "targetCpaMicros")),
              divided(valueIn(entity.targetCpa, "targetCpaMicros")),
              divided(entity.effectiveTargetCpaMicros)>>
        firstPresent(targets) ==
            IF targets[1] # Undefined THEN targets[1]
            ELSE IF targets[2] # Undefined THEN targets[2]
            ELSE targets[3]
        ofRoas == targetArgs.strategyType
                      \in {TARGET_ROAS, MAXIMIZE_CONVERSION_VALUE}
    IN  pc = "target returned" =>
            /\ entityTarget = firstPresent(IF ofRoas THEN roas ELSE cpa)
            /\ entityTarget # Undefined =>
                  \A k \in 1..3 :
                      entityTarget # (IF ofRoas THEN cpa ELSE roas)[k]

-----------------------------------------------------------------------------
(* SimulationsSheet.load and appendFormulas *)

\* SimulationFormulas.length
FormulaCount == 8

\* The most rows a load gathers from the simulations of one level, and
\* the most data rows the sheet holds before it.
MaxSimulationRows == 3

NoFormulas == [k \in 1..FormulaCount |-> {}]

\* clearSheet: the content below the header row, formulas included, goes.
LoadClear ==
    /\ pc = "load"
    /\ IF lastRow > 1
       THEN /\ lastRow' = 1
            /\ formulas' = NoFormulas
       ELSE UNCHANGED <<lastRow, formulas>>
    /\ sheetCalls' = Append(sheetCalls, "clearSheet")
    /\ pc' = "load fetch"
    /\ UNCHANGED <<familyVars, shareVars, lossVars, allSimulations,
                   formulaIndex, targetVars, updateVars, runVars, curveVars,
                   analyzerVars_, suggestVars, seriesVars, sheetVars>>

\* getStrategySimulations, getCampaignSimulations, getAdGroupSimulations,
\* one after the other: the rows of the points of the simulations of
\* that level, or the exception of its search.
LoadFetch ==
    /\ pc = "load fetch"
    /\ \E outcome \in ApiOutcomes :
          IF outcome = "thrown"
          THEN /\ pc' = "load raised"
               /\ UNCHANGED allSimulations
          ELSE /\ \E rows \in 0..MaxSimulationRows :
                     allSimulations' = Append(allSimulations, rows)
               /\ pc' = IF Len(allSimulations') = 3 THEN "load append"
                        ELSE "load fetch"
    /\ UNCHANGED <<familyVars, shareVars, lossVars, lastRow, formulas,
                   formulaIndex, sheetCalls, targetVars, updateVars, runVars,
                   curveVars, analyzerVars_, suggestVars, seriesVars,
                   sheetVars>>

\* appendRows, then the first lines of appendFormulas.
LoadAppend ==
    /\ pc = "load append"
    /\ lastRow' = lastRow + allSimulations[1] + allSimulations[2]
                       + allSimulations[3]
    /\ sheetCalls' = Append(sheetCalls, "appendRows")
    /\ IF lastRow' <= 2
       THEN pc' = "loaded"
       ELSE pc' = "load formulas"
    /\ formulaIndex' = 0
    /\ UNCHANGED <<familyVars, shareVars, lossVars, formulas, allSimulations,
                   targetVars, updateVars, runVars, curveVars, analyzerVars_,
                   suggestVars, seriesVars, sheetVars>>

\* One pass of the forEach: setFormula on row 2, copyTo on rows 3..lastRow.
LoadFormula ==
    /\ pc = "load formulas"
    /\ formulaIndex < FormulaCount
    /\ formulas' = [formulas EXCEPT ![formulaIndex + 1] = 2..lastRow]
    /\ sheetCalls' = Append(sheetCalls, "setFormula")
    /\ formulaIndex' = formulaIndex + 1
    /\ pc' = IF formulaIndex' = FormulaCount THEN "loaded"
             ELSE "load formulas"
    /\ UNCHANGED <<familyVars, shareVars, lossVars, lastRow, allSimulations,
                   targetVars, updateVars, runVars, curveVars, analyzerVars_,
                   suggestVars, seriesVars, sheetVars>>

\* The sheet before a load: the header row alone, or the rows an earlier
\* load left, with formulas where that load set them.
InitLoad ==
    /\ IdleFamily
    /\ IdleShare
    /\ IdleLoss
    /\ IdleAnalyzer
    /\ IdleSuggest
    /\ IdleSeries
    /\ IdleSheet
    /\ IdleCurve
    /\ IdleRun
    /\ IdleUpdate
    /\ IdleTarget
    /\ pc = "load"
    /\ lastRow \in 1..(MaxSimulationRows + 1)
    /\ formulas = IF lastRow <= 2 THEN NoFormulas
                  ELSE [k \in 1..FormulaCount |-> 2..lastRow]
    /\ allSimulations = <<>>
    /\ formulaIndex = 0
    /\ sheetCalls = <<>>

NextLoad == LoadClear \/ LoadFetch \/ LoadAppend \/ LoadFormula

SpecLoad == InitLoad /\ [][NextLoad]_vars

\* C21: when load has ended and the sheet holds at least one data row
\* (a row below the header), every one of the 8 formula columns holds its
\* formula on row 2, and the 8 setFormula calls come after the clearSheet
\* and the appendRows call of the load.
C21_FormulasSetWhenDataLoaded ==
    (pc = "loaded" /\ lastRow >= 2) =>
        /\ \A k \in 1..FormulaCount : 2 \in formulas[k]
        /\ Len(sheetCalls) = 2 + FormulaCount
        /\ sheetCalls[1] = "clearSheet"
        /\ sheetCalls[2] = "appendRows"
        /\ \A c \in 3..Len(sheetCalls) : sheetCalls[c] = "setFormula"

-----------------------------------------------------------------------------
(* Curve.fit by the losses of the points of the simplex *)

\* The losses are floating-point values of the data and of the points the
\* steps compute; here a loss is a whole number of units of half the
\* tolerance, so that two losses one unit apart differ by less than the
\* tolerance, and the loss of every new point is any of the values.
MaxLoss == 2

LossValues == 0..MaxLoss

\* tolerance, in the units of the losses
FitTolerance == 2

\* simplex.sort((a, b) => loss(a) - loss(b)), on the losses.
sortedLosses(points) ==
    LET rank(k) ==
            1 + Cardinality({m \in 1..Len(points) :
                                \/ points[m] < points[k]
                                \/ points[m] = points[k] /\ m < k})
    IN  <<>> \o [r \in 1..Len(points) |->
                    points[CHOOSE k \in 1..Len(points) : rank(k) = r]]

\* The losses the simplex can have after the replacement of the worst
\* point or the shrink of one pass of the while loop, the points being
\* sorted and n + 1 of them: the reflected, expanded and contracted point
\* and the points of a shrink can have any loss.
lossesReplaced(sorted, n) ==
    LET lossBest == sorted[1]
        lossWorst == sorted[n + 1]
        lossSecondWorst == sorted[n]
        replaced(loss) == <<>> \o [sorted EXCEPT ![n + 1] = loss]
        after(lossReflected) ==
            IF lossReflected < lossBest
            THEN {replaced(IF lossExpanded < lossReflected
                           THEN lossExpanded
                           ELSE lossReflected) :
                      lossExpanded \in LossValues}
            ELSE IF lossReflected < lossSecondWorst
            THEN {replaced(lossReflected)}
            ELSE {replaced(lossContracted) :
                      lossContracted \in {l \in LossValues : l < lossWorst}}
                 \cup {<<sorted[1]>> \o shrunk :
                          shrunk \in [1..n -> LossValues]}
    IN  UNION {after(lossReflected) : lossReflected \in LossValues}

\* checkConvergence, on the losses.
lossesConverged(points) ==
    \A k \in 2..Len(points) : Abs(points[k] - points[1]) < FitTolerance

\* One pass through the body of the while loop of fit; when
\* checkConvergence breaks the loop, simplex[0] is stored.
FitPass ==
    /\ pc = "simplex"
    /\ iterations < MaxIterationsFit
    /\ losses' \in lossesReplaced(sortedLosses(losses), 3)
    /\ IF lossesConverged(losses')
       THEN /\ lossStored' = Num(losses'[1])
            /\ pc' = "simplex stored"
            /\ UNCHANGED iterations
       ELSE /\ iterations' = iterations + 1
            /\ UNCHANGED <<pc, lossStored>>
    /\ UNCHANGED <<familyVars, shareVars, self, curveData, answer, loadVars,
                   targetVars, updateVars, runVars, analyzerVars_, suggestVars,
                   seriesVars, sheetVars>>

\* The while condition fails, and simplex[0] is stored.
FitPassCap ==
    /\ pc = "simplex"
    /\ iterations >= MaxIterationsFit
    /\ lossStored' = Num(losses[1])
    /\ pc' = "simplex stored"
    /\ UNCHANGED <<familyVars, shareVars, losses, curveVars, loadVars,
                   targetVars, updateVars, runVars, analyzerVars_, suggestVars,
                   seriesVars, sheetVars>>

\* fit begins: the simplex of initializeSimplex, whatever its losses.
InitFit ==
    /\ IdleFamily
    /\ IdleShare
    /\ IdleAnalyzer
    /\ IdleSuggest
    /\ IdleSeries
    /\ IdleSheet
    /\ IdleCurve
    /\ IdleRun
    /\ IdleUpdate
    /\ IdleTarget
    /\ IdleLoad
    /\ pc = "simplex"
    /\ losses \in [1..4 -> LossValues]
    /\ lossStored = Undefined

NextFit == FitPass \/ FitPassCap

SpecFit == InitFit /\ [][NextFit]_vars

\* C22: when fit has stored its parameters, no point of the simplex has a
\* loss strictly lower than the loss of the stored parameters.
C22_StoredParametersAreBest ==
    pc = "simplex stored" =>
        \A k \in 1..Len(losses) : losses[k] >= lossStored.v

-----------------------------------------------------------------------------
(* The passes of Curve.fit in the rows of SpecRuns *)

\* The simplex a pass of fit leaves when the reflected point is not
\* better than the second worst: the contraction candidate is on the side
\* of the worst point (inward) or of the reflected point (outward) of the
\* centroid, half the way; it replaces the worst point if its loss is
\* lower than the worst's, and otherwise every point but the best moves
\* half the way to the best.  `inwardIfBetter` tells which candidate is
\* taken when the reflected point is better than the worst.
afterContraction(data, points, inwardIfBetter) ==
    LET sorted == sortByLoss(data, points)
        centroid == calculateCentroid(sorted, 3)
        worst == sorted[4]
        lossWorst == calculateLossPolynomial(data, worst)
        lossReflected ==
            calculateLossPolynomial(data, reflect(centroid, worst, 2))
        inward ==
            <<>> \o [j \in 1..3 |->
                        centroid[j] + (worst[j] - centroid[j]) \div 2]
        outward ==
            <<>> \o [j \in 1..3 |->
                        centroid[j] + (centroid[j] - worst[j]) \div 2]
        candidate ==
            IF (lossReflected < lossWorst) = inwardIfBetter
            THEN inward
            ELSE outward
    IN  IF calculateLossPolynomial(data, candidate) < lossWorst
        THEN <<sorted[1], sorted[2], sorted[3], candidate>>
        ELSE <<sorted[1]>> \o
             [k \in 1..3 |->
                 <<>> \o [j \in 1..3 |->
                             sorted[1][j]
                                 + (sorted[k + 1][j] - sorted[1][j]) \div 2]]

\* The reflected point of the pass from `points` is not better than the
\* second worst point.
contractionPass(data, points) ==
    LET sorted == sortByLoss(data, points)
        reflected == reflect(calculateCentroid(sorted, 3), sorted[4], 2)
    IN  calculateLossPolynomial(data, reflected)
            >= calculateLossPolynomial(data, sorted[3])

\* C23: as claimed: in a pass whose reflected point is not better than the
\* second worst, the candidate is the inward one if the reflected point is
\* better than the worst and the outward one otherwise; it replaces the
\* worst point only if its loss is lower, and otherwise the simplex is
\* shrunk towards the best point.
C23_InwardIfBetterThanWorst ==
    [][(RunFit /\ contractionPass(curveData.v, simplex)) =>
          simplex' = afterContraction(curveData.v, simplex, TRUE)]_vars

\* C23: amended: in a pass whose reflected point is not better than the
\* second worst, the candidate is the outward one if the reflected point
\* is better than the worst and the inward one otherwise; it replaces the
\* worst point only if its loss is lower, and otherwise the simplex is
\* shrunk towards the best point.
C23_OutwardIfBetterThanWorst ==
    [][(RunFit /\ contractionPass(curveData.v, simplex)) =>
          simplex' = afterContraction(curveData.v, simplex, FALSE)]_vars

\* The last pass of a fit under way was a contraction pass whose
\* reflected point was better than the worst point.
C23_Witness ==
    /\ pc = "row fit"
    /\ iterations >= 1
    /\ Len(history) >= 2
    /\ LET before == history[Len(history) - 1].simplex
           sorted == sortByLoss(curveData.v, before)
           reflected == reflect(calculateCentroid(sorted, 3), sorted[4], 2)
       IN  /\ contractionPass(curveData.v, before)
           /\ calculateLossPolynomial(curveData.v, reflected)
                  < calculateLossPolynomial(curveData.v, sorted[4])
           /\ simplex = afterContraction(curveData.v, before, FALSE)

-----------------------------------------------------------------------------
(* The exits and the steps of the ascent *)

\* C24: a pass of the ascent that computes a new target leaves through
\* the convergence exit exactly when the new target is within the
\* tolerance of the target the pass started from: a pass that goes on has
\* changed the target by the tolerance or more, and a pass that returns
\* as converged has changed it by less.
C24_ConvergedIffStepBelowTolerance ==
    [][(OptimizeStep /\ exit' # "no gradient") =>
          LET newTarget == IF pc' = "returned" THEN optimalTarget'
                           ELSE target'
          IN  (IsNum(target) /\ IsNum(newTarget)) =>
                  ((pc' = "returned" /\ exit' = "converged")
                       <=> BelowTolerance(newTarget.v - target.v))]_vars

-----------------------------------------------------------------------------
(* The move of suggestNewTarget *)

\* C25: when both predictions are available and currentTarget is within
\* [0.1, maxTarget], the suggestion is a number between currentTarget and
\* optimalTarget (inclusive), at most 5% of |optimalTarget - currentTarget|
\* away from currentTarget; and when the normalized profit difference d is
\* below 0.1 and the clamp leaves the new target alone, the move is
\* 0.05 * |optimalTarget - currentTarget| * d / 0.1 (to the rounding of
\* the thousandths).
C25_ConservativeMove ==
    LET maxTarget == getOptimizationConfig(curve.strategyType).maxTarget
        distance == Abs(optimalTarget.v - currentTarget.v)
        move == Abs(suggestedTarget.v - currentTarget.v)
        d == normalizedProfitDifference(profitTarget, profitOptimal)
    IN  (/\ pc = "suggested"
         /\ profitTarget # Undefined
         /\ profitOptimal # Undefined
         /\ IsNum(currentTarget)
         /\ currentTarget.v >= 100
         /\ currentTarget.v <= maxTarget) =>
            /\ IsNum(suggestedTarget)
            /\ IsNum(optimalTarget)
            /\ suggestedTarget.v >= Min2(currentTarget.v, optimalTarget.v)
            /\ suggestedTarget.v <= Max2(currentTarget.v, optimalTarget.v)
            /\ 100 * move <= 5 * distance
            /\ (/\ IsNum(d)
                /\ d.v < 100
                /\ optimalTarget.v >= 100
                /\ optimalTarget.v <= maxTarget) =>
                   /\ 10000 * move <= 5 * distance * d.v
                   /\ 10000 * move > 5 * distance * d.v - 100 * d.v - 10000

-----------------------------------------------------------------------------
(* createCurvesForAllMetrics: the Curves of one entity, constructed one     *)
(* after the other on the same initialParams array                          *)

\* The series of the six metrics of one entity, [target, value] pairs; the
\* third has too few pairs for a Curve.
MetricSeries ==
    << <<<<10000, 0>>, <<20000, 30000>>, <<30000, 40000>>>>,
       <<<<1000, 0>>, <<2000, 20000>>, <<3000, 20000>>, <<4000, 30000>>>>,
       <<<<10000, 0>>, <<20000, 30000>>>>,
       <<<<10000, 0>>, <<20000, 20000>>, <<30000, 10000>>>>,
       <<<<10000, 10000>>, <<20000, 26000>>, <<30000, 26000>>>>,
       <<<<10000, 0>>, <<20000, 30000>>, <<30000, 50000>>>> >>

\* The series in the order of `metrics`, whichever metric comes first.
metricsFrom(first) ==
    <<>> \o [m \in 1..Len(MetricSeries) |->
                MetricSeries[((first + m - 2) % Len(MetricSeries)) + 1]]

\* Where the array at index k of the simplex is after simplex.sort(...).
positionAfterSort(data, points, k) ==
    IF k = 0 THEN 0
    ELSE LET loss == <<>> \o [m \in 1..Len(points) |->
                                 calculateLossPolynomial(data, points[m])]
         IN  1 + Cardinality({m \in 1..Len(points) :
                                 \/ loss[m] < loss[k]
                                 \/ loss[m] = loss[k] /\ m < k})

\* A mutant of arrayAfter: the pass writes the coordinates of the new points
\* into the arrays the simplex holds.
arrayWrittenInPlace(at, shrunk, n) == at

\* Where the array that was at index `at` of the sorted simplex is after the
\* pass: simplex[n] = ... and simplex[i] = ... (i >= 1) put new arrays in
\* the simplex, so an array at such an index is no longer in it.
arrayAfter(at, shrunk, n) ==
    IF shrunk
    THEN (IF at = 1 THEN 1 ELSE 0)
    ELSE (IF at = n + 1 THEN 0 ELSE at)

\* metrics.forEach begins the next metric: createAndValidateCurve
\* constructs a Curve on the series of the metric if it has 3 pairs, and
\* the constructor calls fit, which puts the array initialParams itself
\* at simplex[0].
ShareStart ==
    /\ pc = "share"
    /\ metricIndex <= Len(runInput.metrics)
    /\ curveData' = Arr(runInput.metrics[metricIndex])
    /\ iterations' = 0
    /\ IF hasEnoughData(curveData')
       THEN /\ self' = [strategyType |-> runInput.simType,
                        maxIterations |-> MaxIterationsFit,
                        a |-> Null, b |-> Null, c |-> Null,
                        rSquared |-> Null]
            /\ simplex' = initializeSimplex(initialParams)
            /\ shared' = 1
            /\ pc' = "share fit"
            /\ UNCHANGED metricIndex
       ELSE /\ metricIndex' = metricIndex + 1
            /\ UNCHANGED <<self, simplex, shared, pc>>
    /\ UNCHANGED <<familyVars, lossVars, loadVars, targetVars, updateVars,
                   keptCurves, run, runInput, initialParams, history, firstRun,
                   answer, analyzerVars_, suggestVars, seriesVars, sheetVars>>

\* One pass through the body of the while loop of fit.  What the array
\* initialParams holds afterwards is what the simplex holds at its index,
\* as long as it is in the simplex.
SharePass ==
    /\ pc = "share fit"
    /\ iterations < self.maxIterations
    /\ LET n == Len(initialParams)
           sorted == sortByLoss(curveData.v, simplex)
           at == positionAfterSort(curveData.v, simplex, shared)
       IN  /\ simplex' = replaceWorst(curveData.v, simplex, n)
           /\ shared' =
                  arrayAfter(at, passOf(curveData.v, sorted, n).shrink, n)
           /\ initialParams' =
                  IF shared' = 0 THEN initialParams ELSE simplex'[shared']
    /\ IF checkConvergence(curveData.v, simplex')
       THEN pc' = "share fitted" /\ UNCHANGED iterations
       ELSE iterations' = iterations + 1 /\ UNCHANGED pc
    /\ UNCHANGED <<familyVars, lossVars, loadVars, targetVars, updateVars,
                   metricIndex, keptCurves, run, runInput, history, firstRun,
                   self, curveData, answer, analyzerVars_, suggestVars,
                   seriesVars, sheetVars>>

\* The while loop of fit ran maxIterations times.
ShareCap ==
    /\ pc = "share fit"
    /\ iterations >= self.maxIterations
    /\ pc' = "share fitted"
    /\ UNCHANGED <<familyVars, lossVars, loadVars, targetVars, updateVars,
                   shareVars, runVars, curveVars, analyzerVars_, suggestVars,
                   seriesVars, sheetVars>>

\* fit ends: [this.a, this.b, this.c] = simplex[0] and rSquared is set.
ShareFitted ==
    /\ pc = "share fitted"
    /\ self' = [self EXCEPT
                   !.a = Num(simplex[1][1]),
                   !.b = Num(simplex[1][2]),
                   !.c = Num(simplex[1][3]),
                   !.rSquared =
                       Num(calculateRSquared(curveData.v, simplex[1]))]
    /\ pc' = "share made"
    /\ UNCHANGED <<familyVars, lossVars, loadVars, targetVars, updateVars,
                   shareVars, runVars, curveData, iterations, answer,
                   analyzerVars_, suggestVars, seriesVars, sheetVars>>

\* createAndValidateCurve asks the new Curve for getRSquared(), and the
\* Curve is kept in `curves` if that is above 0.8.
ShareValidate ==
    /\ pc = "share made"
    /\ answer' = [method |-> "getRSquared", target |-> Undefined,
                  value |-> self.rSquared]
    /\ keptCurves' = IF aboveThreshold(self.rSquared)
                 THEN Append(keptCurves, self)
                 ELSE keptCurves
    /\ pc' = "share called"
    /\ UNCHANGED <<familyVars, lossVars, loadVars, targetVars, updateVars,
                   metricIndex, shared, runVars, self, curveData, iterations,
                   analyzerVars_, suggestVars, seriesVars, sheetVars>>

\* predictValue or calculateGradient of the Curve at a target, on the
\* quadratic of its a, b and c; the forEach goes on to the next metric.
ShareCall ==
    /\ pc = "share called"
    /\ \E t \in {50 * Scale} :
          \/ answer' =
                 [method |-> "predictValue", target |-> Num(t),
                  value |->
                     Num(predictValuePolynomial(
                             <<self.a.v, self.b.v, self.c.v>>, t))]
          \/ answer' =
                 [method |-> "calculateGradient", target |-> Num(t),
                  value |->
                     Num((2 * self.a.v * (t \div 10)) \div 100 + self.b.v)]
    /\ metricIndex' = metricIndex + 1
    /\ pc' = "share"
    /\ UNCHANGED <<familyVars, lossVars, loadVars, targetVars, updateVars,
                   shared, keptCurves, runVars, self, curveData, iterations,
                   analyzerVars_, suggestVars, seriesVars, sheetVars>>

\* generateSuggestionsRow has made the array initialParams of the family
\* and calls createCurvesForAllMetrics with it.
InitShare ==
    /\ IdleFamily
    /\ IdleLoss
    /\ IdleLoad
    /\ IdleTarget
    /\ IdleUpdate
    /\ IdleAnalyzer
    /\ IdleSuggest
    /\ IdleSeries
    /\ IdleSheet
    /\ IdleCurve
    /\ pc = "share"
    /\ run = 1
    /\ \E first \in 1..Len(MetricSeries) :
          runInput = [simType |-> TARGET_CPA, metrics |-> metricsFrom(first)]
    /\ initialParams = initialParamsOf(runInput.simType)
    /\ simplex = <<>>
    /\ history = <<>>
    /\ firstRun = <<>>
    /\ metricIndex = 1
    /\ shared = 0
    /\ keptCurves = <<>>

NextShare ==
    \/ ShareStart
    \/ SharePass
    \/ ShareCap
    \/ ShareFitted
    \/ ShareValidate
    \/ ShareCall

SpecShare == InitShare /\ [][NextShare]_vars

\* C26: constructing and fitting the Curves of one entity leaves the array
\* initialParams and the data array of each Curve as the caller made them,
\* so the fit of every metric starts from the simplex of the same initial
\* guess; and once fit has stored a, b, c and rSquared in a Curve, the
\* calls of getRSquared, predictValue and calculateGradient leave the
\* Curve as it was.
C26_FitAndCallsLeaveNoTrace ==
    /\ [](pc \in {"share", "share fit", "share fitted", "share made",
                  "share called"} =>
             /\ initialParams = initialParamsOf(runInput.simType)
             /\ (pc # "share" =>
                    curveData = Arr(runInput.metrics[metricIndex])))
    /\ [][/\ (ShareStart /\ pc' = "share fit") =>
                 simplex' =
                     initializeSimplex(initialParamsOf(runInput.simType))
          /\ (ShareValidate \/ ShareCall) => self' = self
          /\ ShareValidate =>
                 answer'.value = Num(calculateRSquared(curveData.v,
                                         <<self.a.v, self.b.v, self.c.v>>))
         ]_vars

\* A later Curve of the entity is being fitted, the array initialParams has
\* left its simplex, and an earlier Curve was kept and called.
C26_Witness ==
    /\ pc = "share fit"
    /\ metricIndex >= 2
    /\ iterations >= 1
    /\ shared = 0
    /\ Len(keptCurves) >= 1
    /\ answer # Undefined
    /\ answer.method \in {"predictValue", "calculateGradient"}

-----------------------------------------------------------------------------
(* The simplex of Curve.fit from one pass to the next *)

\* The lowest of the losses of the points.
lowestLoss(data, points) ==
    LET loss == <<>> \o [k \in 1..Len(points) |->
                            calculateLossPolynomial(data, points[k])]
    IN  CHOOSE l \in {loss[k] : k \in 1..Len(points)} :
            \A k \in 1..Len(points) : l <= loss[k]

\* n + 1 = 4 points of n = 3 coordinates.
isSimplex(points) ==
    /\ Len(points) = 4
    /\ \A k \in 1..4 : Len(points[k]) = 3

\* Only the worst point of the sorted simplex was replaced, by a point of
\* lower loss.
worstReplaced(data, sorted, after) ==
    /\ \A k \in 1..3 : after[k] = sorted[k]
    /\ calculateLossPolynomial(data, after[4])
           < calculateLossPolynomial(data, sorted[4])

\* The best point of the sorted simplex was kept and every other point
\* moved half the way to it.
shrunkToBest(sorted, after) ==
    /\ after[1] = sorted[1]
    /\ \A k \in 2..4 : \A j \in 1..3 :
          after[k][j] = sorted[1][j] + (sorted[k][j] - sorted[1][j]) \div 2

\* C27: while fit runs the simplex has 4 points of 3 coordinates, and a
\* pass of the loop leaves the lowest loss among the points no higher than
\* it was: the pass either replaces only the worst point, by a point of
\* lower loss, or shrinks the simplex and keeps the best point.
C27_LowestLossNeverIncreases ==
    /\ [](pc \in {"row fit", "row fitted"} => isSimplex(simplex))
    /\ [][RunFit =>
            LET sorted == sortByLoss(curveData.v, simplex)
            IN  /\ isSimplex(simplex')
                /\ lowestLoss(curveData.v, simplex')
                       <= lowestLoss(curveData.v, simplex)
                /\ \/ worstReplaced(curveData.v, sorted, simplex')
                   \/ shrunkToBest(sorted, simplex')]_vars

\* The last pass of a fit under way shrank the simplex, and the pass
\* before it replaced the worst point.
C27_Witness ==
    /\ pc = "row fit"
    /\ iterations >= 2
    /\ Len(history) >= 3
    /\ LET first == history[Len(history) - 2].simplex
           second == history[Len(history) - 1].simplex
           last == history[Len(history)].simplex
       IN  /\ worstReplaced(curveData.v, sortByLoss(curveData.v, first),
                            second)
           /\ shrunkToBest(sortByLoss(curveData.v, second), last)
           /\ ~worstReplaced(curveData.v, sortByLoss(curveData.v, second),
                             last)

-----------------------------------------------------------------------------
(* The ascent when a step reverses the one before *)

\* The pass from the state takes the gradient g, it is not the first pass,
\* its step goes the opposite way of the step before, and neither step
\* was held back by minTarget or maxTarget.
reversesUnclamped(g) ==
    LET cfg == getOptimizationConfig(curve.strategyType)
        raw == moveTarget(target, learningRate, normalizedGradient(g))
    IN  /\ i > 0
        /\ IsNum(target) /\ IsNum(previousTarget) /\ IsNum(raw)
        /\ cfg.minTarget < target.v /\ target.v < cfg.maxTarget
        /\ clampTarget(cfg, raw) = raw
        /\ Sign(raw.v - target.v) * Sign(target.v - previousTarget.v) < 0

-----------------------------------------------------------------------------
(* How far the ascent can go *)

\* C29: whatever the curve, the value the ascent returns is a number no
\* further from the initial target of the family than maxIterations times
\* the initial learning rate (50 for TARGET_ROAS, 5000 otherwise), and so
\* below maxTarget.
C29_WithinReachOfInitialTarget ==
    pc = "returned" =>
        LET cfg == getOptimizationConfig(curve.strategyType)
        IN  /\ IsNum(optimalTarget)
            /\ Abs(optimalTarget.v - cfg.initialTarget)
                   <= cfg.maxIterations * cfg.learningRate
            /\ cfg.maxIterations * cfg.learningRate
                   = (IF curve.strategyType = TARGET_ROAS
                      THEN 50 * Scale
                      ELSE 5000 * Scale)
            /\ optimalTarget.v < cfg.maxTarget

-----------------------------------------------------------------------------
(* The choices made by the simulation type while a row is generated *)

\* The types of the simulations the three queries select:
\* WHERE ..._simulation.type IN ('TARGET_ROAS', 'TARGET_CPA').
SimulationTypes == {TARGET_ROAS, TARGET_CPA}

\* A mutant of calculateLossOf: the two loss functions exchanged.
calculateLossExchanged(strategyType) ==
    IF strategyType = TARGET_ROAS
    THEN "calculateLossPolynomial"
    ELSE "calculateLossPower"

\* Curve.calculateLoss: the loss function called.
calculateLossOf(strategyType) ==
    IF strategyType = TARGET_ROAS
    THEN "calculateLossPower"
    ELSE "calculateLossPolynomial"

\* Curve.predictValue of a fitted curve: the formula called.
predictValueOf(strategyType) ==
    IF strategyType = TARGET_ROAS
    THEN "predictValuePower"
    ELSE "predictValuePolynomial"

\* Curve.calculateGradient of a fitted curve: the derivative taken.
calculateGradientOf(strategyType) ==
    IF strategyType = TARGET_ROAS
    THEN "y * (b/x + 2*c*ln(x)/x)"
    ELSE "2*a*x + b"

\* GoogleAdsClient.getPoints: the point list read.
pointListOf(simulation) ==
    IF simulation.type = TARGET_ROAS
    THEN "targetRoasPointList"
    ELSE "targetCpaPointList"

\* GoogleAdsClient.getPointTarget: the field of the point read.
pointTargetOf(strategyType) ==
    IF strategyType = TARGET_ROAS THEN "targetRoas" ELSE "targetCpaMicros"

\* choices[name] = value
chosen(name, value) == (name :> value) @@ choices

\* const points = googleAdsClient.getPoints(simulation); without points
\* the row is an error row.
FamilyPoints ==
    /\ pc = "family"
    /\ choices' = chosen("pointList", pointListOf(rowOf.simulation))
    /\ pc' = IF Truthy(getPoints(rowOf.simulation))
             THEN "family guess"
             ELSE "family chosen"
    /\ UNCHANGED <<rowOf, pointIndex, shareVars, lossVars, loadVars,
                   targetVars, updateVars, runVars, curveVars, analyzerVars_,
                   suggestVars, seriesVars, sheetVars>>

\* let initialParams = ...
FamilyGuess ==
    /\ pc = "family guess"
    /\ choices' =
           chosen("initialParams", initialParamsOf(rowOf.simulation.type))
    /\ pointIndex' = 1
    /\ pc' = "family targets"
    /\ UNCHANGED <<rowOf, shareVars, lossVars, loadVars, targetVars,
                   updateVars, runVars, curveVars, analyzerVars_, suggestVars,
                   seriesVars, sheetVars>>

\* calculateValuePerMetric: getPointTarget(strategyType, point) of the next
\* point.  After the last point the Curve is constructed if there are 3
\* pairs.
FamilyTarget ==
    /\ pc = "family targets"
    /\ LET points == getPoints(rowOf.simulation).v
       IN  IF pointIndex <= Len(points)
           THEN /\ choices' =
                       ("targets" :>
                           Append(IF "targets" \in DOMAIN choices
                                  THEN choices["targets"]
                                  ELSE <<>>,
                                  getPointTarget(rowOf.simulation.type,
                                                 points[pointIndex])))
                          @@ chosen("pointTarget",
                                    pointTargetOf(rowOf.simulation.type))
                /\ pointIndex' = pointIndex + 1
                /\ UNCHANGED pc
           ELSE /\ pc' = IF Len(points) >= 3
                         THEN "family loss"
                         ELSE "family chosen"
                /\ UNCHANGED <<choices, pointIndex>>
    /\ UNCHANGED <<rowOf, shareVars, lossVars, loadVars, targetVars,
                   updateVars, runVars, curveVars, analyzerVars_, suggestVars,
                   seriesVars, sheetVars>>

\* new Curve(strategyType, ...): fit calls calculateLoss.
FamilyLoss ==
    /\ pc = "family loss"
    /\ choices' = chosen("loss", calculateLossOf(rowOf.simulation.type))
    /\ pc' = "family config"
    /\ UNCHANGED <<rowOf, pointIndex, shareVars, lossVars, loadVars,
                   targetVars, updateVars, runVars, curveVars, analyzerVars_,
                   suggestVars, seriesVars, sheetVars>>

\* findOptimalTargetForProfitUnconstrained(curve.strategyType) takes its
\* config.
FamilyConfig ==
    /\ pc = "family config"
    /\ choices' =
           chosen("config", getOptimizationConfig(rowOf.simulation.type))
    /\ pc' = "family gradient"
    /\ UNCHANGED <<rowOf, pointIndex, shareVars, lossVars, loadVars,
                   targetVars, updateVars, runVars, curveVars, analyzerVars_,
                   suggestVars, seriesVars, sheetVars>>

\* The ascent calls curve.calculateGradient.
FamilyGradient ==
    /\ pc = "family gradient"
    /\ choices' =
           chosen("gradient", calculateGradientOf(rowOf.simulation.type))
    /\ pc' = "family predict"
    /\ UNCHANGED <<rowOf, pointIndex, shareVars, lossVars, loadVars,
                   targetVars, updateVars, runVars, curveVars, analyzerVars_,
                   suggestVars, seriesVars, sheetVars>>

\* suggestNewTarget and the cells call curve.predictValue.
FamilyPredict ==
    /\ pc = "family predict"
    /\ choices' = chosen("predict", predictValueOf(rowOf.simulation.type))
    /\ pc' = "family chosen"
    /\ UNCHANGED <<rowOf, pointIndex, shareVars, lossVars, loadVars,
                   targetVars, updateVars, runVars, curveVars, analyzerVars_,
                   suggestVars, seriesVars, sheetVars>>

\* generateSuggestionsRow is called with a simulation of one of the types
\* the queries select, its point list being the one of its type.
InitFamily ==
    /\ IdleShare
    /\ IdleLoss
    /\ IdleLoad
    /\ IdleTarget
    /\ IdleUpdate
    /\ IdleRun
    /\ IdleCurve
    /\ IdleAnalyzer
    /\ IdleSuggest
    /\ IdleSeries
    /\ IdleSheet
    /\ pc = "family"
    /\ \E simType \in SimulationTypes :
       \E pointList \in PointListValues(simType) :
       \E current \in {Num(0), Num(2000), Num(40 * Scale)} :
          rowOf = [simulation |-> simulationOf(simType, pointList),
                   currentTarget |-> current]
    /\ choices = <<>>
    /\ pointIndex = 0

NextFamily ==
    \/ FamilyPoints
    \/ FamilyGuess
    \/ FamilyTarget
    \/ FamilyLoss
    \/ FamilyConfig
    \/ FamilyGradient
    \/ FamilyPredict

SpecFamily == InitFamily /\ [][NextFamily]_vars

\* What the power-log (return-on-spend) family chooses.
PowerLogFamily ==
    [initialParams |-> <<-2 * Scale, 2 * Scale, -500>>,
     loss |-> "calculateLossPower",
     predict |-> "predictValuePower",
     gradient |-> "y * (b/x + 2*c*ln(x)/x)",
     initialTarget |-> 4500,
     maxTarget |-> 500 * Scale,
     pointList |-> "targetRoasPointList",
     pointTarget |-> "targetRoas"]

\* What the quadratic (cost-style) family chooses.
QuadraticFamily ==
    [initialParams |-> <<100, 1 * Scale, 25 * Scale>>,
     loss |-> "calculateLossPolynomial",
     predict |-> "predictValuePolynomial",
     gradient |-> "2*a*x + b",
     initialTarget |-> 50 * Scale,
     maxTarget |-> 2000000 * Scale,
     pointList |-> "targetCpaPointList",
     pointTarget |-> "targetCpaMicros"]

\* Every choice made so far is the one of `family`.
choicesOf(family) ==
    /\ \A name \in DOMAIN choices \ {"config", "targets"} :
          choices[name] = family[name]
    /\ "config" \in DOMAIN choices =>
          /\ choices["config"].initialTarget = family.initialTarget
          /\ choices["config"].maxTarget = family.maxTarget
    /\ "targets" \in DOMAIN choices =>
          \A k \in 1..Len(choices["targets"]) : IsNum(choices["targets"][k])

\* C30: whichever type the simulation of a row carries, the choices made
\* for the row - the point list and the field of the point read by the
\* client, the initial parameters, the loss, gradient and prediction of
\* the Curve, and the config of the ascent - are all those of one family,
\* the power-log one or the quadratic one.
C30_ChoicesOfOneFamily ==
    pc \in {"family", "family guess", "family targets", "family loss",
            "family config", "family gradient", "family predict",
            "family chosen"} =>
        \/ choicesOf(PowerLogFamily)
        \/ choicesOf(QuadraticFamily)

\* Every choice has been made for a row whose simulation has points.
C30_Witness ==
    /\ pc = "family chosen"
    /\ DOMAIN choices =
           {"pointList", "initialParams", "pointTarget", "targets", "loss",
            "config", "gradient", "predict"}
    /\ Len(choices["targets"]) >= 3

====
